---- MODULE Spec2Model ----
(***************************************************************************)
(* Model of the claude-code-queue scheduler: the QueueState aggregate      *)
(* (models.py), the QueueManager run modes, iteration and manager          *)
(* operations (queue_manager.py), and the file-backed item store the       *)
(* manager loads from and saves to.                                        *)
(***************************************************************************)
EXTENDS Integers, Sequences, FiniteSets, TLC

(* ----------------------------- bounds --------------------------------- *)
\* identifiers handed out by the uuid generator: 1..MaxId
MaxId == 2
\* priorities an added prompt may carry: 0..MaxPriority
MaxPriority == 1
\* the clock runs over 0..MaxTime
MaxTime == 1
\* longest execution log (in entries) the environment is allowed to build
MaxLog == 6
\* reset times of a drawn rate-limit condition: 0..MaxReset
MaxReset == 6
\* check intervals a manager may be constructed with: up to MaxInterval
MaxInterval == 8
\* program constant: QueuedPrompt.max_retries default
DefaultMaxRetries == 3
\* program constant: QueueManager.check_interval default, in seconds
DefaultCheckInterval == 30
\* program constant: the buffer added to the time until reset, in seconds
ResetBuffer == 5
\* the clock, and every datetime, counts ticks of 1/TicksPerSecond second
TicksPerSecond == 2
\* results a scheduler processes while the saves of the store may fail, or
\* while other processes begin operations on the store
MaxFaults == 2
\* longest identifier text a caller gives a prompt, in characters
MaxIdLen == 2
\* characters of a response text before and after its phrase: up to MaxPad
MaxPad == 1
\* max_retries a caller gives a prompt: 0..MaxRetries
MaxRetries == 2

(* --------------------------- PromptStatus ------------------------------ *)
QUEUED == "queued"
EXECUTING == "executing"
COMPLETED == "completed"
FAILED == "failed"
CANCELLED == "cancelled"
PromptStatus == {QUEUED, EXECUTING, COMPLETED, FAILED, CANCELLED}

\* None for Optional[datetime]
NoTime == -1

(* --------------------------- QueuedPrompt ------------------------------ *)
VALID_PERMISSION_MODES ==
    {"acceptEdits", "bypassPermissions", "default", "delegate", "dontAsk", "plan"}

\* None for the Optional[str] fields and for Optional[int] timeout
NoStr == "None"
NoTimeout == -1

\* the fields of a prompt that say what to run and how, with their dataclass
\* defaults; content, working directory, model and tool names are numbers
\* that stand for texts, 0 and <<>> for the defaults
DefaultParams ==
    [content |-> 0, working_directory |-> 0, context_files |-> <<>>,
     estimated_tokens |-> NoTimeout, permission_mode |-> NoStr,
     allowed_tools |-> <<>>, timeout |-> NoTimeout, model |-> NoStr]

\* QueuedPrompt(...) with the dataclass defaults for the fields not given
QueuedPrompt(i, prio, maxr) ==
    [id |-> i, priority |-> prio, max_retries |-> maxr, retry_count |-> 0,
     status |-> QUEUED, execution_log |-> <<>>, params |-> DefaultParams,
     bookmark |-> NoStr]

\* one log entry; the timestamp prefix is left out, n/m carry the attempt
\* numbers of the "Started execution" entry
LogEntry(msg, n, m) == [msg |-> msg, n |-> n, m |-> m]

add_log(p, msg) ==
    [p EXCEPT !.execution_log = Append(@, LogEntry(msg, 0, 0))]

\* an eligibility test that looks at the counter only
can_retry_any_status(p) ==
    p.retry_count < p.max_retries

can_retry(p) ==
    p.retry_count < p.max_retries /\ p.status = FAILED

(* --------------------------- RateLimitInfo ----------------------------- *)
\* Optional[RateLimitInfo]: present = FALSE is None
NoRateLimit == [present |-> FALSE, is_rate_limited |-> FALSE,
                reset_time |-> NoTime, limit_message |-> FALSE]

RateLimitInfo(flag, reset, msg) ==
    [present |-> TRUE, is_rate_limited |-> flag, reset_time |-> reset,
     limit_message |-> msg]

(* ----------------------------- QueueState ------------------------------ *)
EmptyQueueState ==
    [prompts |-> <<>>, last_processed |-> NoTime, total_processed |-> 0,
     failed_count |-> 0, rate_limited_count |-> 0,
     current_rate_limit |-> NoRateLimit]

\* a test that still answers true at the reset time itself
is_rate_limited_at_reset(qs, t) ==
    IF ~qs.current_rate_limit.present THEN FALSE
    ELSE IF ~qs.current_rate_limit.is_rate_limited THEN FALSE
    ELSE IF qs.current_rate_limit.reset_time # NoTime
         THEN t <= qs.current_rate_limit.reset_time
    ELSE TRUE

is_rate_limited(qs, t) ==
    IF ~qs.current_rate_limit.present THEN FALSE
    ELSE IF ~qs.current_rate_limit.is_rate_limited THEN FALSE
    ELSE IF qs.current_rate_limit.reset_time # NoTime
         THEN t < qs.current_rate_limit.reset_time
    ELSE TRUE

\* a clearing that waits until the clock has passed the reset time
clear_rate_limit_after_reset(qs, t) ==
    IF ~qs.current_rate_limit.present \/ ~qs.current_rate_limit.is_rate_limited
    THEN qs
    ELSE IF qs.current_rate_limit.reset_time # NoTime
            /\ t > qs.current_rate_limit.reset_time
         THEN [qs EXCEPT !.current_rate_limit = NoRateLimit]
    ELSE qs

\* the state after clear_rate_limit_if_expired()
clear_rate_limit_if_expired(qs, t) ==
    IF ~qs.current_rate_limit.present \/ ~qs.current_rate_limit.is_rate_limited
    THEN qs
    ELSE IF qs.current_rate_limit.reset_time # NoTime
            /\ t >= qs.current_rate_limit.reset_time
         THEN [qs EXCEPT !.current_rate_limit = NoRateLimit]
    ELSE qs

\* positions of the prompts with status QUEUED, in list order
ExecutablePositions(qs) ==
    {k \in 1..Len(qs.prompts) : qs.prompts[k].status = QUEUED}

\* a minimum that settles ties for the prompt added last
LastMin(qs, S) ==
    CHOOSE k \in S :
        \A j \in S : \/ qs.prompts[k].priority < qs.prompts[j].priority
                     \/ (qs.prompts[k].priority = qs.prompts[j].priority /\ k >= j)

\* Python's min(seq, key=...) returns the first minimal element
FirstMin(qs, S) ==
    CHOOSE k \in S :
        \A j \in S : \/ qs.prompts[k].priority < qs.prompts[j].priority
                     \/ (qs.prompts[k].priority = qs.prompts[j].priority /\ k <= j)

\* a selection that takes the first Queued prompt whatever its priority
get_next_prompt_first_queued(qs, t) ==
    IF is_rate_limited(qs, t) THEN 0
    ELSE IF ExecutablePositions(qs) = {} THEN 0
    ELSE CHOOSE k \in ExecutablePositions(qs) :
            \A j \in ExecutablePositions(qs) : k <= j

\* position of the returned prompt in qs.prompts, 0 for None
get_next_prompt(qs, t) ==
    IF is_rate_limited(qs, t) THEN 0
    ELSE IF ExecutablePositions(qs) = {} THEN 0
    ELSE FirstMin(qs, ExecutablePositions(qs))

\* position of the first prompt with this id, 0 for None
get_prompt(qs, pid) ==
    IF \E k \in 1..Len(qs.prompts) : qs.prompts[k].id = pid
    THEN CHOOSE k \in 1..Len(qs.prompts) :
            /\ qs.prompts[k].id = pid
            /\ \A j \in 1..(k - 1) : qs.prompts[j].id # pid
    ELSE 0

state_add_prompt(qs, p) == [qs EXCEPT !.prompts = Append(@, p)]

state_remove_prompt(qs, pid) ==
    [qs EXCEPT !.prompts = SelectSeq(@, LAMBDA p : p.id # pid)]

state_delete_prompt(qs, pid) == state_remove_prompt(qs, pid)


(* --------------------------- ExecutionResult --------------------------- *)
\* output / error record whether the captured text is non-empty
ExecutionResult(success, output, error, info) ==
    [success |-> success, output |-> output, error |-> error,
     rate_limit_info |-> info]

result_is_rate_limited(r) ==
    r.rate_limit_info.present /\ r.rate_limit_info.is_rate_limited

(* ------------------------------ the store ------------------------------ *)
\* One file per prompt, kept in the container of its status; the side file
\* holds the counters, last_processed and the rate-limit condition.
FileOf(p) ==
    [container |-> p.status, id |-> p.id, priority |-> p.priority,
     max_retries |-> p.max_retries, retry_count |-> p.retry_count,
     execution_log |-> p.execution_log, params |-> p.params,
     bookmark |-> p.bookmark]

\* the container the file is found in decides the status
PromptOf(f) ==
    [id |-> f.id, priority |-> f.priority, max_retries |-> f.max_retries,
     retry_count |-> f.retry_count, status |-> f.container,
     execution_log |-> f.execution_log, params |-> f.params,
     bookmark |-> f.bookmark]

SideOf(qs) ==
    [last_processed |-> qs.last_processed,
     total_processed |-> qs.total_processed,
     failed_count |-> qs.failed_count,
     rate_limited_count |-> qs.rate_limited_count,
     current_rate_limit |-> qs.current_rate_limit]

EmptyStore == [files |-> <<>>, side |-> SideOf(EmptyQueueState)]

load_queue_state(sto) ==
    [prompts |-> [k \in 1..Len(sto.files) |-> PromptOf(sto.files[k])],
     last_processed |-> sto.side.last_processed,
     total_processed |-> sto.side.total_processed,
     failed_count |-> sto.side.failed_count,
     rate_limited_count |-> sto.side.rate_limited_count,
     current_rate_limit |-> sto.side.current_rate_limit]

\* saveOne: the prompt's file is rewritten in the container of its status,
\* replacing the file of the same identifier if there is one
save_single_prompt(files, p) ==
    IF \E k \in 1..Len(files) : files[k].id = p.id
    THEN [k \in 1..Len(files) |->
             IF files[k].id = p.id THEN FileOf(p) ELSE files[k]]
    ELSE Append(files, FileOf(p))

RECURSIVE SaveAll(_, _)
SaveAll(files, prompts) ==
    IF prompts = <<>> THEN files
    ELSE SaveAll(save_single_prompt(files, Head(prompts)), Tail(prompts))

\* a save that leaves in the store the files of the saved prompts only
save_queue_state_mirroring(sto, qs) ==
    [files |-> [k \in 1..Len(qs.prompts) |-> FileOf(qs.prompts[k])],
     side |-> SideOf(qs)]

save_queue_state(sto, qs) ==
    [files |-> SaveAll(sto.files, qs.prompts), side |-> SideOf(qs)]

\* the store after a save that returned ok
Saved(sto, qs, ok) == IF ok THEN save_queue_state(sto, qs) ELSE sto

\* deleteFiles: the store without the files of this identifier, and whether
\* anything was removed
delete_prompt_files(sto, pid) ==
    [store |-> [sto EXCEPT !.files = SelectSeq(@, LAMBDA f : f.id # pid)],
     deleted |-> \E k \in 1..Len(sto.files) : sto.files[k].id = pid]

(* ------------------- QueueManager: manager operations ------------------ *)
\* self.state is Optional[QueueState]: <<>> is None, <<qs>> a state
NoState == <<>>

\* "if not self.state: self.state = self.storage.load_queue_state()"
LoadedState(st, sto) == IF Len(st) = 0 THEN load_queue_state(sto) ELSE st[1]

OpResult(qs, sto, r) == [state |-> <<qs>>, store |-> sto, ret |-> r]

add_prompt(st, sto, p, ok) ==
    LET qs1 == state_add_prompt(LoadedState(st, sto), p)
    IN  OpResult(qs1, Saved(sto, qs1, ok), ok)

\* a cancel that does not look at the status it overwrites
remove_prompt_unguarded(st, sto, pid, ok) ==
    LET qs0 == LoadedState(st, sto)
        k   == get_prompt(qs0, pid)
    IN  IF k = 0 THEN OpResult(qs0, sto, FALSE)
        ELSE LET qs1 == [qs0 EXCEPT !.prompts[k] =
                            add_log([@ EXCEPT !.status = CANCELLED],
                                    "Cancelled by user")]
             IN  OpResult(qs1, Saved(sto, qs1, ok), ok)

remove_prompt(st, sto, pid, ok) ==
    LET qs0 == LoadedState(st, sto)
        k   == get_prompt(qs0, pid)
    IN  IF k = 0 THEN OpResult(qs0, sto, FALSE)
        ELSE IF qs0.prompts[k].status = EXECUTING THEN OpResult(qs0, sto, FALSE)
        ELSE LET qs1 == [qs0 EXCEPT !.prompts[k] =
                            add_log([@ EXCEPT !.status = CANCELLED],
                                    "Cancelled by user")]
             IN  OpResult(qs1, Saved(sto, qs1, ok), ok)

\* a delete that takes a Completed or Failed prompt out of its counter
delete_prompt_uncounting(st, sto, pid, ok) ==
    LET qs0 == LoadedState(st, sto)
        k   == get_prompt(qs0, pid)
        qs1 == [state_delete_prompt(qs0, pid) EXCEPT
                   !.total_processed =
                       IF k # 0 /\ qs0.prompts[k].status = COMPLETED /\ @ > 0
                       THEN @ - 1 ELSE @,
                   !.failed_count =
                       IF k # 0 /\ qs0.prompts[k].status = FAILED /\ @ > 0
                       THEN @ - 1 ELSE @]
        del == delete_prompt_files(sto, pid)
    IN  IF k # 0
        THEN IF qs0.prompts[k].status = EXECUTING
             THEN OpResult(qs0, sto, FALSE)
             ELSE OpResult(qs1, Saved(del.store, qs1, ok), TRUE)
        ELSE OpResult(qs0, del.store, del.deleted)

delete_prompt(st, sto, pid, ok) ==
    LET qs0 == LoadedState(st, sto)
        k   == get_prompt(qs0, pid)
        qs1 == state_delete_prompt(qs0, pid)
        removed_from_state == Len(qs1.prompts) < Len(qs0.prompts)
        del == delete_prompt_files(sto, pid)
    IN  IF k # 0
        THEN IF qs0.prompts[k].status = EXECUTING
             THEN OpResult(qs0, sto, FALSE)
             ELSE IF removed_from_state \/ del.deleted
                  THEN OpResult(qs1, Saved(del.store, qs1, ok), TRUE)
                  ELSE OpResult(qs1, del.store, FALSE)
        ELSE OpResult(qs0, del.store, del.deleted)

\* a clone that takes the original's attempts along
new_prompt_keeping_count(original_prompt, newid) ==
    [QueuedPrompt(newid, original_prompt.priority, original_prompt.max_retries)
        EXCEPT !.params = original_prompt.params,
               !.retry_count = original_prompt.retry_count]

\* retry_prompt: "new_prompt = QueuedPrompt(content=..., ..., model=...)";
\* newid is what the default factory of id hands out
new_prompt(original_prompt, newid) ==
    [QueuedPrompt(newid, original_prompt.priority, original_prompt.max_retries)
        EXCEPT !.params = original_prompt.params]

retry_prompt(st, sto, pid, delete_after_success, newid, ok1, ok2) ==
    LET qs0 == LoadedState(st, sto)
        k   == get_prompt(qs0, pid)
    IN  IF k = 0 THEN OpResult(qs0, sto, FALSE)
        ELSE
        LET orig == qs0.prompts[k]
            qs1  == state_add_prompt(qs0, new_prompt(orig, newid))
            sto1 == Saved(sto, qs1, ok1)
            qs2  == state_delete_prompt(qs1, pid)
            removed_from_state == Len(qs2.prompts) < Len(qs1.prompts)
            del  == delete_prompt_files(sto1, pid)
        IN  IF ok1 /\ delete_after_success
            THEN IF removed_from_state \/ del.deleted
                 THEN OpResult(qs2, Saved(del.store, qs2, ok2), ok1)
                 ELSE OpResult(qs2, del.store, ok1)
            ELSE OpResult(qs1, sto1, ok1)

(* ----------------------- QueueManager: scheduler ----------------------- *)
\* a reload that takes the counters as the store holds them
reload_discarding_previous(st, sto) ==
    IF Len(st) > 0
    THEN [load_queue_state(sto) EXCEPT
             !.current_rate_limit = st[1].current_rate_limit]
    ELSE load_queue_state(sto)

\* a reload that reconciles the counters but keeps the loaded last_processed
reload_keeping_loaded_time(st, sto) ==
    LET loaded == reload_discarding_previous(st, sto)
        Max(a, b) == IF a >= b THEN a ELSE b
    IN  IF Len(st) = 0 THEN loaded
        ELSE [loaded EXCEPT
                !.total_processed = Max(@, st[1].total_processed),
                !.failed_count = Max(@, st[1].failed_count),
                !.rate_limited_count = Max(@, st[1].rate_limited_count)]

\* _process_queue_iteration, up to and including the reconciliation of the
\* counters and last_processed with the values held before the reload
reload_queue_state(st, sto) ==
    LET previous_total_processed == IF Len(st) > 0 THEN st[1].total_processed ELSE 0
        previous_failed_count == IF Len(st) > 0 THEN st[1].failed_count ELSE 0
        previous_rate_limited_count ==
            IF Len(st) > 0 THEN st[1].rate_limited_count ELSE 0
        previous_last_processed ==
            IF Len(st) > 0 THEN st[1].last_processed ELSE NoTime
        loaded ==
            IF Len(st) > 0
            THEN [load_queue_state(sto) EXCEPT
                     !.current_rate_limit = st[1].current_rate_limit]
            ELSE load_queue_state(sto)
        Max(a, b) == IF a >= b THEN a ELSE b
    IN  [loaded EXCEPT
            !.total_processed = Max(@, previous_total_processed),
            !.failed_count = Max(@, previous_failed_count),
            !.rate_limited_count = Max(@, previous_rate_limited_count),
            !.last_processed =
                IF previous_last_processed # NoTime
                   /\ (@ = NoTime \/ @ < previous_last_processed)
                THEN previous_last_processed ELSE @]

\* the state in which the iteration selects: reloaded, reconciled, and with
\* an expired rate limit cleared
iteration_state(st, sto, t) ==
    clear_rate_limit_if_expired(reload_queue_state(st, sto), t)

\* _execute_prompt before the executor is called
begin_execute(qs, k) ==
    [qs EXCEPT !.prompts[k] =
        [@ EXCEPT !.status = EXECUTING,
                  !.execution_log =
                      Append(@, LogEntry("Started execution",
                                         qs.prompts[k].retry_count + 1,
                                         qs.prompts[k].max_retries))]]

LogIf(p, cond, msg) == IF cond THEN add_log(p, msg) ELSE p

\* a success branch that leaves the total as it is
on_success_uncounted(qs, k, result) ==
    [qs EXCEPT
        !.prompts[k] =
            LogIf(add_log([@ EXCEPT !.status = COMPLETED], "SUCCESS"),
                  result.output, "Output")]

\* _process_execution_result, "if result.success"
on_success(qs, k, result) ==
    [qs EXCEPT
        !.prompts[k] =
            LogIf(add_log([@ EXCEPT !.status = COMPLETED], "SUCCESS"),
                  result.output, "Output"),
        !.total_processed = @ + 1]

\* a rate-limited branch that charges the attempt to the prompt
on_rate_limited_counting_retry(qs, k, result) ==
    [qs EXCEPT
        !.prompts[k] =
            LogIf(add_log([@ EXCEPT !.status = QUEUED, !.retry_count = @ + 1],
                          "RATE LIMITED"),
                  result.rate_limit_info.limit_message, "Message"),
        !.current_rate_limit = result.rate_limit_info,
        !.rate_limited_count = @ + 1]

\* a rate-limited branch that keeps the condition without its reset time
on_rate_limited_without_reset(qs, k, result) ==
    [qs EXCEPT
        !.prompts[k] =
            LogIf(add_log([@ EXCEPT !.status = QUEUED], "RATE LIMITED"),
                  result.rate_limit_info.limit_message, "Message"),
        !.current_rate_limit =
            [result.rate_limit_info EXCEPT !.reset_time = NoTime],
        !.rate_limited_count = @ + 1]

\* _process_execution_result, "elif result.is_rate_limited"
on_rate_limited(qs, k, result) ==
    [qs EXCEPT
        !.prompts[k] =
            LogIf(add_log([@ EXCEPT !.status = QUEUED], "RATE LIMITED"),
                  result.rate_limit_info.limit_message, "Message"),
        !.current_rate_limit = result.rate_limit_info,
        !.rate_limited_count = @ + 1]

\* a failure branch that counts the attempt twice
on_failure_counted_twice(qs, k, result) ==
    LET counted == [qs.prompts[k] EXCEPT !.retry_count = @ + 2]
    IN  [qs EXCEPT
            !.prompts[k] =
                LogIf(add_log([counted EXCEPT !.status = FAILED],
                              "FAILED (max retries exceeded)"),
                      result.error, "Error"),
            !.failed_count = @ + 1]

\* _process_execution_result, "else": retry_count is incremented while the
\* status is still EXECUTING, and can_retry() is asked of that prompt
on_failure(qs, k, result) ==
    LET counted == [qs.prompts[k] EXCEPT !.retry_count = @ + 1]
    IN  IF can_retry(counted)
        THEN [qs EXCEPT
                !.prompts[k] =
                    LogIf(add_log([counted EXCEPT !.status = QUEUED],
                                  "FAILED (will retry)"),
                          result.error, "Error")]
        ELSE [qs EXCEPT
                !.prompts[k] =
                    LogIf(add_log([counted EXCEPT !.status = FAILED],
                                  "FAILED (max retries exceeded)"),
                          result.error, "Error"),
                !.failed_count = @ + 1]

process_execution_result(qs, k, result, t) ==
    LET after ==
            IF result.success THEN on_success(qs, k, result)
            ELSE IF result_is_rate_limited(result) THEN on_rate_limited(qs, k, result)
            ELSE on_failure(qs, k, result)
    IN  [after EXCEPT !.last_processed = t]

\* a reset that leaves no trace in the log
reset_executing_unlogged(qs, msg) ==
    [qs EXCEPT !.prompts =
        [k \in 1..Len(qs.prompts) |->
            IF qs.prompts[k].status = EXECUTING
            THEN [qs.prompts[k] EXCEPT !.status = QUEUED]
            ELSE qs.prompts[k]]]

\* every EXECUTING prompt back to QUEUED with a log entry (_shutdown, and the
\* finally block of process_next)
reset_executing(qs, msg) ==
    [qs EXCEPT !.prompts =
        [k \in 1..Len(qs.prompts) |->
            IF qs.prompts[k].status = EXECUTING
            THEN add_log([qs.prompts[k] EXCEPT !.status = QUEUED], msg)
            ELSE qs.prompts[k]]]

shutdown_state(qs) == reset_executing(qs, "Execution interrupted during shutdown")

finally_state(qs) == reset_executing(qs, "Execution interrupted")

\* a sleep interval that waits for the reset however far away it is
calculate_sleep_interval_uncapped(st, tested, t, check_interval) ==
    IF Len(st) = 0 THEN check_interval
    ELSE IF /\ is_rate_limited(st[1], tested)
            /\ st[1].current_rate_limit.reset_time # NoTime
    THEN LET ticks_until_reset == st[1].current_rate_limit.reset_time - t
         IN  IF ticks_until_reset <= 0 THEN 0
             ELSE (ticks_until_reset + ResetBuffer * TicksPerSecond)
                      \div TicksPerSecond
    ELSE check_interval

\* _calculate_sleep_interval: tested is the clock is_rate_limited() reads,
\* t the later one read for seconds_until_reset; times are in ticks, the
\* result and check_interval in seconds. int() truncates what min() returns
calculate_sleep_interval(st, tested, t, check_interval) ==
    IF Len(st) = 0 THEN check_interval
    ELSE IF /\ is_rate_limited(st[1], tested)
            /\ st[1].current_rate_limit.present
            /\ st[1].current_rate_limit.reset_time # NoTime
    THEN LET ticks_until_reset == st[1].current_rate_limit.reset_time - t
             buffered == ticks_until_reset + ResetBuffer * TicksPerSecond
             capped == check_interval * TicksPerSecond
             wait_ticks == IF buffered <= capped THEN buffered ELSE capped
         IN  IF ticks_until_reset <= 0 THEN 0
             ELSE IF wait_ticks >= 0 THEN wait_ticks \div TicksPerSecond
             ELSE -((-wait_ticks) \div TicksPerSecond)
    ELSE check_interval

(* ------------------ the calls a run mode makes, in order --------------- *)
\* one call: the function that makes it, the collaborator method called, the
\* QueueState handed over (<<>> when none is), and a number: the identifier
\* of the prompt for execute_prompt, the seconds for sleep
Call(by, op, st, n) == [by |-> by, op |-> op, state |-> st, n |-> n]

NoCalls == <<>>

\* "if callback: callback(self.state)"
callback_calls(supplied, qs) ==
    IF supplied THEN <<Call("_process_queue_iteration", "callback", <<qs>>, 0)>>
    ELSE NoCalls

\* an idle iteration that saves what it reloaded
iteration_idle_calls_saving(supplied, qs) ==
    <<Call("_process_queue_iteration", "load_queue_state", <<>>, 0),
      Call("_process_queue_iteration", "save_queue_state", <<qs>>, 0)>>
    \o callback_calls(supplied, qs)

\* _process_queue_iteration when next_prompt is None: the reload, the callback
iteration_idle_calls(supplied, qs) ==
    <<Call("_process_queue_iteration", "load_queue_state", <<>>, 0)>>
    \o callback_calls(supplied, qs)

\* an execution that calls the executor before it saves
execute_prompt_calls_executor_first(qs, k) ==
    <<Call("_execute_prompt", "execute_prompt", <<>>, qs.prompts[k].id),
      Call("_execute_prompt", "save_queue_state", <<qs>>, 0)>>

\* _execute_prompt up to the call of the executor: qs holds prompt k as
\* EXECUTING already
execute_prompt_calls(qs, k) ==
    <<Call("_execute_prompt", "save_queue_state", <<qs>>, 0),
      Call("_execute_prompt", "execute_prompt", <<>>, qs.prompts[k].id)>>

\* _process_queue_iteration from the reload to the call of the executor
iteration_begin_calls(qs, k) ==
    <<Call("_process_queue_iteration", "load_queue_state", <<>>, 0)>>
    \o execute_prompt_calls(qs, k)

\* an end of iteration that reports to the callback before it saves
iteration_end_calls_callback_first(supplied, qs) ==
    callback_calls(supplied, qs)
    \o <<Call("_process_queue_iteration", "save_queue_state", <<qs>>, 0)>>

\* _process_queue_iteration after _execute_prompt returned: the save, the
\* callback
iteration_end_calls(supplied, qs) ==
    <<Call("_process_queue_iteration", "save_queue_state", <<qs>>, 0)>>
    \o callback_calls(supplied, qs)

\* start() and process_next() before the iteration: the connection test and,
\* when it passed, the load
startup_calls(by, is_working) ==
    <<Call(by, "test_connection", <<>>, IF is_working THEN 1 ELSE 0)>>
    \o (IF is_working THEN <<Call(by, "load_queue_state", <<>>, 0)>> ELSE NoCalls)

\* _shutdown(): qs is the state after the reset of the EXECUTING prompts
shutdown_calls(qs) == <<Call("_shutdown", "save_queue_state", <<qs>>, 0)>>

\* the finally block of process_next()
finally_calls(qs) == <<Call("process_next", "save_queue_state", <<qs>>, 0)>>

\* "if sleep_interval > 0: time.sleep(sleep_interval)": n is the interval
\* computed; a call with n not above 0 stands for the sleep that is skipped
sleep_calls(n) == <<Call("start", "sleep", <<>>, n)>>

(* ------------------------------- state --------------------------------- *)
VARIABLES
    store,      \* the persisted store: item files and side file
    state,      \* QueueManager.state of the scheduler process: NoState or <<qs>>
    running,    \* QueueManager.running
    pc,         \* where the scheduler process is
    cur,        \* position in state.prompts of the prompt handed to the executor
    now,        \* the clock (datetime.now())
    next_id,    \* the next identifier the uuid generator hands out
    ret,        \* what the most recent operation returned
    result,     \* <<r>>: the step just taken processed ExecutionResult r; else <<>>
    calls,      \* the calls start()/process_next() made in the step just taken
    env         \* the environment of this run: which inputs and faults it offers

vars == <<store, state, running, pc, cur, now, next_id, ret, result, calls, env>>

\* the default environment: saves of the store succeed, callers give new
\* prompts the default max_retries and any priority, and add them under
\* 1..MaxId; the run mode is given an observer callback and the default
\* check_interval; two reads of the clock within one step give the same time;
\* no other process is between its load of the store and its save
DefaultEnv ==
    [io_faults |-> FALSE, max_retries |-> {DefaultMaxRetries}, ids |-> 1..MaxId,
     priorities |-> 0..MaxPriority, callback |-> TRUE,
     check_interval |-> DefaultCheckInterval, clock_gaps |-> {0},
     other |-> NoState]

NoResult == <<>>

\* what a save may return
SaveOutcomes == IF env.io_faults THEN BOOLEAN ELSE {TRUE}

RetOf(b) == IF b THEN "true" ELSE "false"

Init ==
    /\ store = EmptyStore
    /\ state = NoState
    /\ running = FALSE
    /\ pc = "idle"
    /\ cur = 0
    /\ now = 0
    /\ next_id = 1
    /\ ret = "none"
    /\ result = NoResult
    /\ calls = NoCalls
    /\ env = DefaultEnv

(* ------------------------- environment inputs -------------------------- *)
\* the identifiers a caller may name
Ids == 1..MaxId

\* the prompts a caller may construct and add
NewPrompts ==
    {QueuedPrompt(next_id, prio, m) : prio \in env.priorities, m \in env.max_retries}

\* n more entries fit into the log of p
RoomFor(p, n) == Len(p.execution_log) + n <= MaxLog

\* what the executor may return for prompt p at time t: a success with its
\* output, a failure with its error text, or a rate limit. A rate-limit verdict
\* comes from RateLimitInfo.from_claude_response, so its flag is set and its
\* message is the matched, non-empty text; it re-queues the prompt, so it is
\* offered only while the log has room for that result and one more attempt
Results(p, t) ==
    {ExecutionResult(TRUE, TRUE, FALSE, NoRateLimit),
     ExecutionResult(FALSE, FALSE, TRUE, NoRateLimit)}
    \cup {ExecutionResult(FALSE, FALSE, TRUE, RateLimitInfo(TRUE, r, TRUE)) :
            r \in IF RoomFor(p, 5) THEN {NoTime} \cup ((t + 1)..MaxTime) ELSE {}}

\* a cancel request names an identifier the caller does not already see as
\* cancelled
CancelAllowed(st, pid) ==
    LET qs0 == LoadedState(st, store)
        k == get_prompt(qs0, pid)
    IN  IF k = 0 THEN TRUE ELSE qs0.prompts[k].status # CANCELLED

(* --------------------------- manager operations ------------------------ *)
\* the scheduler's own manager object can be called when control is outside
\* start()/process_next() or inside the observer callback that ends an
\* iteration
InProcess == pc \in {"iter_done", "done"}

\* an operation on the scheduler's own manager object
Own(r) ==
    /\ state' = r.state
    /\ store' = r.store
    /\ ret' = RetOf(r.ret)

\* an operation by another process (cli.py builds a fresh manager per command)
Other(r) ==
    /\ store' = r.store
    /\ ret' = RetOf(r.ret)
    /\ UNCHANGED state

AddPrompt ==
    /\ InProcess
    /\ next_id \in env.ids
    /\ \E p \in NewPrompts, ok \in SaveOutcomes :
          Own(add_prompt(state, store, p, ok))
    /\ next_id' = next_id + 1
    /\ result' = NoResult
    /\ calls' = NoCalls
    /\ UNCHANGED <<running, pc, cur, now, env>>

RemovePrompt(pid) ==
    /\ InProcess
    /\ CancelAllowed(state, pid)
    /\ \E ok \in SaveOutcomes : Own(remove_prompt(state, store, pid, ok))
    /\ result' = NoResult
    /\ calls' = NoCalls
    /\ UNCHANGED <<running, pc, cur, now, next_id, env>>

DeletePrompt(pid) ==
    /\ InProcess
    /\ \E ok \in SaveOutcomes : Own(delete_prompt(state, store, pid, ok))
    /\ result' = NoResult
    /\ calls' = NoCalls
    /\ UNCHANGED <<running, pc, cur, now, next_id, env>>

RetryPrompt(pid, del) ==
    /\ InProcess
    /\ next_id \in Ids
    /\ \E ok1 \in SaveOutcomes, ok2 \in SaveOutcomes :
          Own(retry_prompt(state, store, pid, del, next_id, ok1, ok2))
    /\ next_id' = IF get_prompt(LoadedState(state, store), pid) = 0
                  THEN next_id ELSE next_id + 1
    /\ result' = NoResult
    /\ calls' = NoCalls
    /\ UNCHANGED <<running, pc, cur, now, env>>

CliAdd ==
    /\ next_id \in env.ids
    /\ \E p \in NewPrompts, ok \in SaveOutcomes :
          Other(add_prompt(NoState, store, p, ok))
    /\ next_id' = next_id + 1
    /\ result' = NoResult
    /\ calls' = NoCalls
    /\ UNCHANGED <<running, pc, cur, now, env>>

CliCancel(pid) ==
    /\ CancelAllowed(NoState, pid)
    /\ \E ok \in SaveOutcomes : Other(remove_prompt(NoState, store, pid, ok))
    /\ result' = NoResult
    /\ calls' = NoCalls
    /\ UNCHANGED <<running, pc, cur, now, next_id, env>>

CliDelete(pid) ==
    /\ \E ok \in SaveOutcomes : Other(delete_prompt(NoState, store, pid, ok))
    /\ result' = NoResult
    /\ calls' = NoCalls
    /\ UNCHANGED <<running, pc, cur, now, next_id, env>>

CliRetry(pid, del) ==
    /\ next_id \in Ids
    /\ \E ok1 \in SaveOutcomes, ok2 \in SaveOutcomes :
          Other(retry_prompt(NoState, store, pid, del, next_id, ok1, ok2))
    /\ next_id' = IF get_prompt(load_queue_state(store), pid) = 0
                  THEN next_id ELSE next_id + 1
    /\ result' = NoResult
    /\ calls' = NoCalls
    /\ UNCHANGED <<running, pc, cur, now, env>>

(* ------------------------- the scheduler process ----------------------- *)
\* start(): the connection test, the load, running = True. start() returns
\* None; ret is what cmd_start returns after it, which is 0 always
Start ==
    /\ pc = "idle"
    /\ \E is_working \in BOOLEAN :
          /\ IF is_working
             THEN /\ state' = <<load_queue_state(store)>>
                  /\ running' = TRUE
                  /\ pc' = "loop"
                  /\ ret' = "none"
             ELSE /\ pc' = "done"
                  /\ ret' = "0"
                  /\ UNCHANGED <<state, running>>
          /\ calls' = startup_calls("start", is_working)
    /\ result' = NoResult
    /\ UNCHANGED <<store, cur, now, next_id, env>>

\* one pass of "while self.running": _process_queue_iteration up to the call
\* of the executor, or to its return when nothing is selected
IterationBegin ==
    /\ pc = "loop"
    /\ running
    /\ LET qs == iteration_state(state, store, now)
           k  == get_next_prompt(qs, now)
       IN  IF k = 0
           THEN /\ state' = <<qs>>
                /\ pc' = "iter_done"
                /\ calls' = iteration_idle_calls(env.callback, qs)
                /\ UNCHANGED <<store, cur>>
           ELSE \E ok \in SaveOutcomes :
                /\ state' = <<begin_execute(qs, k)>>
                /\ store' = Saved(store, begin_execute(qs, k), ok)
                /\ cur' = k
                /\ pc' = "exec"
                /\ calls' = iteration_begin_calls(begin_execute(qs, k), k)
    /\ ret' = "none"
    /\ result' = NoResult
    /\ UNCHANGED <<running, now, next_id, env>>

\* the executor returns: _process_execution_result, the save that ends the
\* iteration, the observer callback
ExecutorReturns ==
    /\ pc = "exec"
    /\ \E r \in Results(state[1].prompts[cur], now), ok \in SaveOutcomes :
          LET qs == process_execution_result(state[1], cur, r, now)
          IN  /\ state' = <<qs>>
              /\ store' = Saved(store, qs, ok)
              /\ result' = <<r>>
              /\ calls' = iteration_end_calls(env.callback, qs)
    /\ cur' = 0
    /\ pc' = "iter_done"
    /\ ret' = "none"
    /\ UNCHANGED <<running, now, next_id, env>>

\* a loop that sleeps and goes on whether or not it was asked to stop
Sleep_when_stopped ==
    /\ pc = "iter_done"
    /\ \E gap \in env.clock_gaps :
          /\ now' = now + gap
          /\ calls' = sleep_calls(
                 calculate_sleep_interval(state, now, now + gap, env.check_interval))
    /\ pc' = "loop"
    /\ result' = <<>>
    /\ UNCHANGED <<store, state, running, cur, next_id, ret, env>>

\* "if self.running: time.sleep(...)" and back to the loop test; the clock
\* may move on between the two reads _calculate_sleep_interval makes of it
Sleep ==
    /\ pc = "iter_done"
    /\ running
    /\ \E gap \in env.clock_gaps :
          /\ now' = now + gap
          /\ calls' = sleep_calls(
                 calculate_sleep_interval(state, now, now + gap, env.check_interval))
    /\ pc' = "loop"
    /\ result' = NoResult
    /\ UNCHANGED <<store, state, running, cur, next_id, ret, env>>

\* the loop test fails: finally: _shutdown(), and cmd_start returns 0
Shutdown ==
    /\ pc \in {"loop", "iter_done"}
    /\ ~running
    /\ \E ok \in SaveOutcomes :
          /\ state' = <<shutdown_state(state[1])>>
          /\ store' = Saved(store, shutdown_state(state[1]), ok)
    /\ calls' = shutdown_calls(shutdown_state(state[1]))
    /\ pc' = "done"
    /\ ret' = "0"
    /\ result' = NoResult
    /\ UNCHANGED <<running, cur, now, next_id, env>>

\* stop(), also from the SIGINT/SIGTERM handler
Stop ==
    /\ pc \in {"loop", "exec", "iter_done"}
    /\ running
    /\ running' = FALSE
    /\ result' = NoResult
    /\ calls' = NoCalls
    /\ UNCHANGED <<store, state, pc, cur, now, next_id, ret, env>>

\* process_next(): connection test, load, one iteration; when nothing is
\* selected it returns through its finally block at once
ProcessNext ==
    /\ pc = "idle"
    /\ \E is_working \in BOOLEAN :
          IF ~is_working
          THEN /\ pc' = "done"
               /\ ret' = "1"
               /\ calls' = startup_calls("process_next", FALSE)
               /\ UNCHANGED <<store, state, cur>>
          ELSE LET qs == iteration_state(<<load_queue_state(store)>>, store, now)
                   k  == get_next_prompt(qs, now)
               IN  IF k = 0
                   THEN \E ok \in SaveOutcomes :
                        /\ state' = <<finally_state(qs)>>
                        /\ store' = Saved(store, finally_state(qs), ok)
                        /\ pc' = "done"
                        /\ ret' = "0"
                        /\ calls' = startup_calls("process_next", TRUE)
                                     \o iteration_idle_calls(env.callback, qs)
                                     \o finally_calls(finally_state(qs))
                        /\ UNCHANGED cur
                   ELSE \E ok \in SaveOutcomes :
                        /\ state' = <<begin_execute(qs, k)>>
                        /\ store' = Saved(store, begin_execute(qs, k), ok)
                        /\ cur' = k
                        /\ pc' = "next_exec"
                        /\ ret' = "none"
                        /\ calls' = startup_calls("process_next", TRUE)
                                     \o iteration_begin_calls(begin_execute(qs, k), k)
    /\ result' = NoResult
    /\ UNCHANGED <<running, now, next_id, env>>

\* the executor returns in single-shot mode: result, save, callback,
\* return 0, then the finally block
NextExecutorReturns ==
    /\ pc = "next_exec"
    /\ \E r \in Results(state[1].prompts[cur], now),
          ok1 \in SaveOutcomes, ok2 \in SaveOutcomes :
          LET qs == process_execution_result(state[1], cur, r, now)
          IN  /\ state' = <<finally_state(qs)>>
              /\ store' = Saved(Saved(store, qs, ok1), finally_state(qs), ok2)
              /\ result' = <<r>>
              /\ calls' = iteration_end_calls(env.callback, qs)
                           \o finally_calls(finally_state(qs))
    /\ cur' = 0
    /\ pc' = "done"
    /\ ret' = "0"
    /\ UNCHANGED <<running, now, next_id, env>>

\* the process is killed (SIGKILL, power loss): its memory is gone, the
\* store stays as it is; a new process starts with a fresh manager
Kill ==
    /\ pc \in {"loop", "exec", "iter_done", "next_exec"}
    /\ IF pc \in {"exec", "next_exec"}
       THEN RoomFor(state[1].prompts[cur], 4) ELSE TRUE
    /\ state' = NoState
    /\ running' = FALSE
    /\ pc' = "idle"
    /\ cur' = 0
    /\ ret' = "none"
    /\ result' = NoResult
    /\ calls' = NoCalls
    /\ UNCHANGED <<store, now, next_id, env>>

\* the process ends after start() or process_next() returned
Exit ==
    /\ pc = "done"
    /\ state' = NoState
    /\ running' = FALSE
    /\ pc' = "idle"
    /\ ret' = "none"
    /\ result' = NoResult
    /\ calls' = NoCalls
    /\ UNCHANGED <<store, cur, now, next_id, env>>

Tick ==
    /\ now < MaxTime
    /\ now' = now + 1
    /\ result' = NoResult
    /\ calls' = NoCalls
    /\ UNCHANGED <<store, state, running, pc, cur, next_id, ret, env>>

Next ==
    \/ AddPrompt
    \/ \E pid \in Ids : RemovePrompt(pid)
    \/ \E pid \in Ids : DeletePrompt(pid)
    \/ \E pid \in Ids, del \in BOOLEAN : RetryPrompt(pid, del)
    \/ CliAdd
    \/ \E pid \in Ids : CliCancel(pid)
    \/ \E pid \in Ids : CliDelete(pid)
    \/ \E pid \in Ids, del \in BOOLEAN : CliRetry(pid, del)
    \/ Start
    \/ IterationBegin
    \/ ExecutorReturns
    \/ Sleep
    \/ Shutdown
    \/ Stop
    \/ ProcessNext
    \/ NextExecutorReturns
    \/ Kill
    \/ Exit
    \/ Tick

Spec == Init /\ [][Next]_vars

(* ------------------- C1: failures and the retry bound ------------------- *)
\* the step just taken processed a failure that is not a rate limit
FailureProcessed ==
    /\ result' # NoResult
    /\ ~result'[1].success
    /\ ~result_is_rate_limited(result'[1])

\* C1: when an execution returns a failure that is not a rate limit, the
\* item's retry_count grows by exactly 1; if the new retry_count is below
\* max_retries the item becomes Queued and failed_count keeps its value,
\* otherwise the item becomes Failed and failed_count grows by exactly 1.
C1_FailureRequeuesBelowMaxRetries ==
    [][FailureProcessed =>
        LET p == state[1].prompts[cur]
            q == state'[1].prompts[cur]
        IN  /\ q.retry_count = p.retry_count + 1
            /\ IF q.retry_count < q.max_retries
               THEN /\ q.status = QUEUED
                    /\ state'[1].failed_count = state[1].failed_count
               ELSE /\ q.status = FAILED
                    /\ state'[1].failed_count = state[1].failed_count + 1]_vars

(* --------------------- C2: selection of the next prompt ----------------- *)
\* the prompt at position k of a drawn list: identifiers follow the position
PromptAt(k, shape) ==
    [QueuedPrompt(k, shape.priority, DefaultMaxRetries) EXCEPT
        !.status = shape.status]

Shapes == [priority : 0..MaxPriority, status : PromptStatus]

\* the prompt lists a QueueState may hold, up to MaxId prompts
PromptLists ==
    UNION {{[k \in 1..n |-> PromptAt(k, f[k])] : f \in [1..n -> Shapes]} :
             n \in 0..MaxId}

\* the values of current_rate_limit: None, or a RateLimitInfo as its
\* constructor and from_claude_response build it
RateLimits ==
    {NoRateLimit, RateLimitInfo(FALSE, NoTime, FALSE)}
    \cup {RateLimitInfo(TRUE, r, TRUE) : r \in {NoTime} \cup (0..MaxTime)}

\* get_next_prompt() is called on any QueueState, at any time
InitSelect ==
    /\ \E ps \in PromptLists, rl \in RateLimits :
          state = <<[EmptyQueueState EXCEPT !.prompts = ps,
                                            !.current_rate_limit = rl]>>
    /\ store = EmptyStore
    /\ running = FALSE
    /\ pc = "select"
    /\ cur = 0
    /\ now \in 0..MaxTime
    /\ next_id = 1
    /\ ret = "none"
    /\ result = NoResult
    /\ calls = NoCalls
    /\ env = DefaultEnv

\* next_prompt = self.state.get_next_prompt()
SelectNext ==
    /\ pc = "select"
    /\ cur' = get_next_prompt(state[1], now)
    /\ pc' = "selected"
    /\ UNCHANGED <<store, state, running, now, next_id, ret, result, calls, env>>

SpecSelect == InitSelect /\ [][SelectNext]_vars

\* the scheduler-wide rate-limit condition of qs is active at time t: it is
\* there, flagged, and its reset time, if known, is still ahead
RateLimitActive(qs, t) ==
    /\ qs.current_rate_limit.present
    /\ qs.current_rate_limit.is_rate_limited
    /\ \/ qs.current_rate_limit.reset_time = NoTime
       \/ t < qs.current_rate_limit.reset_time

QueuedAt(qs) == {k \in 1..Len(qs.prompts) : qs.prompts[k].status = QUEUED}

Counters == [total_processed : 0..1, failed_count : 0..1, rate_limited_count : 0..1]

WithCounters(qs, c) ==
    [qs EXCEPT !.total_processed = c.total_processed,
               !.failed_count = c.failed_count,
               !.rate_limited_count = c.rate_limited_count]

\* the executor has been called for a Queued prompt of any QueueState, by
\* start() or by process_next(); the store holds the save that preceded it
InitResult ==
    /\ \E ps \in PromptLists, c \in Counters,
          rl \in {NoRateLimit, RateLimitInfo(TRUE, NoTime, TRUE)} :
          LET qs == [WithCounters(EmptyQueueState, c) EXCEPT
                        !.prompts = ps, !.current_rate_limit = rl]
          IN  \E k \in ExecutablePositions(qs) :
                /\ state = <<begin_execute(qs, k)>>
                /\ store = save_queue_state(EmptyStore, begin_execute(qs, k))
                /\ cur = k
    /\ pc \in {"exec", "next_exec"}
    /\ running = (pc = "exec")
    /\ now \in 0..MaxTime
    /\ next_id = Len(state[1].prompts) + 1
    /\ ret = "none"
    /\ result = NoResult
    /\ calls = NoCalls
    /\ env = DefaultEnv

NextResult ==
    \/ ExecutorReturns
    \/ NextExecutorReturns

SpecResult == InitResult /\ [][NextResult]_vars

\* the step just taken processed a result that reports a rate limit
RateLimitProcessed ==
    /\ result' # NoResult
    /\ result_is_rate_limited(result'[1])

\* C3: when an execution result reports a rate limit, the item becomes Queued
\* with retry_count unchanged, the scheduler-wide rate-limit condition is set
\* to the reported one, rate_limited_count grows by exactly 1, and
\* total_processed and failed_count keep their values.
C3_RateLimitRequeuesWithoutPenalty ==
    [][RateLimitProcessed =>
        LET p == state[1].prompts[cur]
            q == state'[1].prompts[cur]
        IN  /\ q.status = QUEUED
            /\ q.retry_count = p.retry_count
            /\ state'[1].current_rate_limit = result'[1].rate_limit_info
            /\ state'[1].rate_limited_count = state[1].rate_limited_count + 1
            /\ state'[1].total_processed = state[1].total_processed
            /\ state'[1].failed_count = state[1].failed_count]_vars

\* a rate-limited result with a known reset time has been processed while a
\* second prompt waits
C3_Witness ==
    /\ result # NoResult
    /\ result_is_rate_limited(result[1])
    /\ result[1].rate_limit_info.reset_time # NoTime
    /\ state[1].current_rate_limit = result[1].rate_limit_info
    /\ state[1].rate_limited_count = 2
    /\ Len(state[1].prompts) = 2
    /\ \A k \in 1..2 : state[1].prompts[k].status = QUEUED

(* ------------------ C4, C5: prompts found Executing --------------------- *)
\* the scheduler loads the store: start(), the reload that begins an
\* iteration, process_next()
SchedulerLoads ==
    \/ pc = "idle" /\ pc' \in {"loop", "next_exec"}
    \/ pc = "loop" /\ pc' \in {"exec", "iter_done"}

\* C4: after every load of the store by the scheduler, no item of the
\* scheduler's state is Executing, save the one the iteration itself selects
\* afterwards: what the store held as Executing has been set to Queued.
C4_LoadResetsExecuting ==
    [][SchedulerLoads =>
        \A k \in 1..Len(state'[1].prompts) :
            state'[1].prompts[k].status = EXECUTING
                => (pc' \in {"exec", "next_exec"} /\ k = cur')]_vars

ExecutingIn(prompts) ==
    {k \in 1..Len(prompts) : prompts[k].status = EXECUTING}

\* C5: in every reachable state at most one item is Executing, in the
\* scheduler's state and in the persisted store.
C5_AtMostOneExecuting ==
    /\ Cardinality(ExecutingIn(load_queue_state(store).prompts)) <= 1
    /\ state # NoState => Cardinality(ExecutingIn(state[1].prompts)) <= 1


(* -------------- C6: the counters within one manager process ------------- *)
\* one manager process in which a caller adds a single prompt, of priority 0
OwnEnv == [DefaultEnv EXCEPT !.ids = {1}, !.priorities = {0}]

\* a manager inside its observer callback; other processes have written the
\* side file, so its counters may be behind or ahead of the manager's. The
\* run is followed at one reading of the clock
InitOwn ==
    /\ \E c \in Counters, d \in Counters :
          /\ store = [EmptyStore EXCEPT
                         !.side = SideOf(WithCounters(EmptyQueueState, c))]
          /\ state = <<WithCounters(EmptyQueueState, d)>>
    /\ running = TRUE
    /\ pc = "iter_done"
    /\ cur = 0
    /\ now = 0
    /\ next_id = 1
    /\ ret = "none"
    /\ result = NoResult
    /\ calls = NoCalls
    /\ env = OwnEnv

NextOwn ==
    \/ AddPrompt
    \/ \E pid \in Ids : RemovePrompt(pid)
    \/ \E pid \in Ids : DeletePrompt(pid)
    \/ \E pid \in Ids, del \in BOOLEAN : RetryPrompt(pid, del)
    \/ IterationBegin
    \/ ExecutorReturns
    \/ Sleep
    \/ Shutdown
    \/ Stop

SpecOwn == InitOwn /\ [][NextOwn]_vars

\* C6: within one manager process, across scheduler iterations and manager
\* operations, none of total_processed, failed_count and rate_limited_count
\* of the manager's state ever decreases.
C6_CountersNeverDecrease ==
    [][(state # NoState /\ state' # NoState) =>
        /\ state'[1].total_processed >= state[1].total_processed
        /\ state'[1].failed_count >= state[1].failed_count
        /\ state'[1].rate_limited_count >= state[1].rate_limited_count]_vars

\* a success has been counted on top of a total_processed of 1, in a process
\* that has seen a failure as well
C6_Witness ==
    /\ result # NoResult
    /\ result[1].success
    /\ state[1].total_processed = 2
    /\ state[1].failed_count = 2

(* --------------------- C7: reload and reconcile ------------------------- *)
Times == {NoTime} \cup (0..MaxTime)

\* an iteration is about to begin, in a new manager or in one that holds a
\* state; the side file has been written by any process
InitReload ==
    /\ \E c \in Counters, t \in Times, ps \in {<<>>, <<QueuedPrompt(1, 0, DefaultMaxRetries)>>} :
          store = [files |-> [k \in 1..Len(ps) |-> FileOf(ps[k])],
                   side |-> SideOf([WithCounters(EmptyQueueState, c) EXCEPT
                                       !.last_processed = t])]
    /\ \/ state = NoState
       \/ \E d \in Counters, u \in Times :
             state = <<[WithCounters(EmptyQueueState, d) EXCEPT
                           !.last_processed = u]>>
    /\ running = TRUE
    /\ pc = "loop"
    /\ cur = 0
    /\ now = 0
    /\ next_id = Len(store.files) + 1
    /\ ret = "none"
    /\ result = NoResult
    /\ calls = NoCalls
    /\ env = DefaultEnv

NextReload ==
    \/ IterationBegin
    \/ Sleep

SpecReload == InitReload /\ [][NextReload]_vars

\* the later of two Optional times
Later(a, b) ==
    IF a = NoTime THEN b
    ELSE IF b = NoTime THEN a
    ELSE IF a >= b THEN a ELSE b

Larger(a, b) == IF a >= b THEN a ELSE b

\* the step is the reload-and-reconcile that begins an iteration
ReloadStep == pc = "loop" /\ pc' \in {"exec", "iter_done"}

\* C7: the reload-and-reconcile step sets each counter to the max of the
\* reloaded and the previous in-memory value and last_processed to the later
\* of the two; applied again to an unchanged store it gives the same counters
\* and last_processed; it never decreases a counter or moves last_processed
\* backward.
C7_ReloadTakesMaxAndIsIdempotent ==
    [][ReloadStep =>
        LET prev == IF state = NoState THEN EmptyQueueState ELSE state[1]
            disk == store.side
            new  == state'[1]
            again == reload_queue_state(state', store')
        IN  /\ new.total_processed = Larger(disk.total_processed, prev.total_processed)
            /\ new.failed_count = Larger(disk.failed_count, prev.failed_count)
            /\ new.rate_limited_count =
                  Larger(disk.rate_limited_count, prev.rate_limited_count)
            /\ new.last_processed = Later(disk.last_processed, prev.last_processed)
            /\ new.total_processed >= prev.total_processed
            /\ new.failed_count >= prev.failed_count
            /\ new.rate_limited_count >= prev.rate_limited_count
            /\ new.last_processed = Later(new.last_processed, prev.last_processed)
            /\ store' = store =>
                  /\ again.total_processed = new.total_processed
                  /\ again.failed_count = new.failed_count
                  /\ again.rate_limited_count = new.rate_limited_count
                  /\ again.last_processed = new.last_processed]_vars

\* after a reload the manager holds a counter and a last_processed the store
\* is behind on, and a counter it took from the store
C7_Witness ==
    /\ pc = "iter_done"
    /\ state[1].total_processed > store.side.total_processed
    /\ state[1].last_processed > store.side.last_processed
    /\ store.side.last_processed # NoTime
    /\ state[1].failed_count = store.side.failed_count
    /\ state[1].failed_count > 0


(* ----------------------------- C8: cancel ------------------------------- *)
\* a caller is about to cancel: the store holds any prompts; the manager is
\* a new one (cli.py) or one that has loaded them
InitCancel ==
    /\ \E ps \in PromptLists :
          LET qs == [EmptyQueueState EXCEPT !.prompts = ps]
          IN  /\ store = save_queue_state(EmptyStore, qs)
              /\ state \in {NoState, <<qs>>}
              /\ next_id = Len(ps) + 1
    /\ running = FALSE
    /\ pc = "done"
    /\ cur = 0
    /\ now = 0
    /\ ret = "none"
    /\ result = NoResult
    /\ calls = NoCalls
    /\ env = DefaultEnv

NextCancel ==
    \/ \E pid \in Ids : RemovePrompt(pid)
    \/ \E pid \in Ids : CliCancel(pid)

SpecCancel == InitCancel /\ [][NextCancel]_vars

PositionsOf(qs, pid) == {k \in 1..Len(qs.prompts) : qs.prompts[k].id = pid}

\* what a cancel of pid has to leave behind, the caller seeing the queue as
\* before and then as after
CancelPost(before, after, pid) ==
    IF PositionsOf(before, pid) = {}
    THEN ret' = "false" /\ after = before /\ store' = store
    ELSE LET k == CHOOSE j \in PositionsOf(before, pid) : TRUE
             p == before.prompts[k]
         IN  IF p.status = EXECUTING
             THEN ret' = "false" /\ after = before /\ store' = store
             ELSE IF p.status \in {QUEUED, FAILED}
             THEN /\ ret' = "true"
                  /\ Len(after.prompts) = Len(before.prompts)
                  /\ after.prompts[k].status = CANCELLED
                  /\ Len(after.prompts[k].execution_log) = Len(p.execution_log) + 1
                  /\ \A j \in 1..Len(before.prompts) :
                        j # k => after.prompts[j] = before.prompts[j]
                  /\ \E f \in 1..Len(store'.files) :
                        /\ store'.files[f].id = pid
                        /\ store'.files[f].container = CANCELLED
             ELSE TRUE

\* C8: cancelling an Executing item returns False and leaves the item, every
\* other item and the store unchanged; cancelling a Queued or Failed item
\* sets it to Cancelled, appends a log entry and persists; cancelling an
\* unknown identifier returns False without changes.
C8_CancelRefusedWhileExecuting ==
    [][\A pid \in Ids :
        /\ RemovePrompt(pid) =>
              CancelPost(LoadedState(state, store), state'[1], pid)
        /\ CliCancel(pid) =>
              CancelPost(load_queue_state(store), load_queue_state(store'), pid)]_vars

\* a cancel has been refused although every identifier is known: its target
\* was the Executing prompt, next to one cancelled before
C8_Witness ==
    /\ ret = "false"
    /\ state # NoState
    /\ Len(state[1].prompts) = MaxId
    /\ \E k \in 1..MaxId : state[1].prompts[k].status = EXECUTING
    /\ \E k \in 1..MaxId :
          /\ state[1].prompts[k].status = CANCELLED
          /\ Len(state[1].prompts[k].execution_log) = 1

(* ----------------------------- C9: delete ------------------------------- *)
IdsIn(prompts) == {prompts[k].id : k \in 1..Len(prompts)}

ExecutingIds(prompts) == {prompts[k].id : k \in ExecutingIn(prompts)}

\* C9: no step removes an item from the manager's state, or its files from
\* the store, while that item is Executing.
C9_ExecutingNeverDeleted ==
    [][/\ ExecutingIds(load_queue_state(store).prompts)
             \subseteq IdsIn(load_queue_state(store').prompts)
       /\ (state # NoState /\ state' # NoState) =>
             ExecutingIds(state[1].prompts) \subseteq IdsIn(state'[1].prompts)]_vars

(* ----------------------- C10: the lifecycle edges ----------------------- *)
LifecycleEdges ==
    {<<QUEUED, EXECUTING>>, <<EXECUTING, COMPLETED>>, <<EXECUTING, QUEUED>>,
     <<EXECUTING, FAILED>>, <<QUEUED, CANCELLED>>, <<FAILED, CANCELLED>>}

\* the status under which the store holds identifier i
StatusIn(prompts, i) ==
    prompts[CHOOSE k \in 1..Len(prompts) : prompts[k].id = i].status

\* C10: every status change a step makes to an item of the store is an edge
\* of the lifecycle machine.
C10_StatusFollowsLifecycle ==
    [][\A i \in IdsIn(load_queue_state(store).prompts)
              \cap IdsIn(load_queue_state(store').prompts) :
          LET old == StatusIn(load_queue_state(store).prompts, i)
              new == StatusIn(load_queue_state(store').prompts, i)
          IN  old # new => <<old, new>> \in LifecycleEdges]_vars


(* --------------- C11: a successful execution result --------------------- *)
\* a scheduler is started, in either run mode and with or without a
\* callback, on a store that holds prompts of one priority that wait, were
\* left Executing by a killed run, or are Completed; other processes retry
\* prompts while it runs
RunLists ==
    {ps \in PromptLists :
        \A k \in 1..Len(ps) : /\ ps[k].priority = 0
                              /\ ps[k].status \in {QUEUED, EXECUTING, COMPLETED}}

InitRun ==
    /\ \E ps \in RunLists :
          /\ store = save_queue_state(EmptyStore, [EmptyQueueState EXCEPT !.prompts = ps])
          /\ next_id = Len(ps) + 1
    /\ state = NoState
    /\ running = FALSE
    /\ pc = "idle"
    /\ cur = 0
    /\ now = 0
    /\ ret = "none"
    /\ result = NoResult
    /\ calls = NoCalls
    /\ \E cb \in BOOLEAN : env = [DefaultEnv EXCEPT !.callback = cb]

NextRun ==
    \/ Start
    \/ IterationBegin
    \/ ExecutorReturns
    \/ Sleep
    \/ Stop
    \/ Shutdown
    \/ ProcessNext
    \/ NextExecutorReturns
    \/ Exit
    \/ Tick
    \/ \E pid \in Ids : CliRetry(pid, FALSE)

SpecRun == InitRun /\ [][NextRun]_vars

\* the step just taken processed a successful result
SuccessProcessed ==
    /\ result' # NoResult
    /\ result'[1].success

\* the log of p holds the entry of a successful execution
HasSucceeded(p) ==
    \E j \in 1..Len(p.execution_log) : p.execution_log[j].msg = "SUCCESS"

\* every prompt of the list that has succeeded is out of the scheduler's
\* reach: Completed, or Cancelled afterwards
SucceededStaySettled(prompts) ==
    \A k \in 1..Len(prompts) :
        HasSucceeded(prompts[k]) => prompts[k].status \in {COMPLETED, CANCELLED}

\* no prompt that is in both lists loses the entry of its success
SuccessKept(before, after) ==
    \A k \in 1..Len(before), j \in 1..Len(after) :
        (before[k].id = after[j].id /\ HasSucceeded(before[k]))
            => HasSucceeded(after[j])

\* C11: when an execution returns success the item becomes Completed,
\* total_processed grows by exactly 1, failed_count, rate_limited_count and
\* the item's retry_count keep their values and last_processed is set; an
\* item that has succeeded is not selected again: in the scheduler's state
\* and in the store it keeps the record of its success and is never Queued
\* or Executing after it.
C11_SuccessCompletesOnce ==
    [][/\ SuccessProcessed =>
            LET p == state[1].prompts[cur]
                q == state'[1].prompts[cur]
            IN  /\ q.status = COMPLETED
                /\ q.id = p.id
                /\ q.retry_count = p.retry_count
                /\ state'[1].total_processed = state[1].total_processed + 1
                /\ state'[1].failed_count = state[1].failed_count
                /\ state'[1].rate_limited_count = state[1].rate_limited_count
                /\ state'[1].last_processed = now
                /\ state'[1].last_processed # NoTime
                /\ HasSucceeded(q)
       /\ SucceededStaySettled(load_queue_state(store').prompts)
       /\ SuccessKept(load_queue_state(store).prompts,
                      load_queue_state(store').prompts)
       /\ state' # NoState => SucceededStaySettled(state'[1].prompts)
       /\ (state # NoState /\ state' # NoState) =>
             SuccessKept(state[1].prompts, state'[1].prompts)]_vars

\* a prompt has completed, was retried as a new prompt, and the scheduler
\* has selected the new prompt while the completed one stays as it is
C11_Witness ==
    /\ pc = "exec"
    /\ state[1].total_processed = 1
    /\ Len(state[1].prompts) = 2
    /\ state[1].prompts[1].status = COMPLETED
    /\ Len(state[1].prompts[1].execution_log) > 0
    /\ state[1].prompts[2].status = EXECUTING


(* ------------- C12: the order of events of an iteration ----------------- *)
\* the calls made by the iteration itself, without those of the run mode
\* around it
IterationCalls(cs) ==
    SelectSeq(cs, LAMBDA c : c.by \in {"_process_queue_iteration", "_execute_prompt"})

OpsOf(cs) == [j \in 1..Len(cs) |-> cs[j].op]

\* the step calls the executor
ExecutorCalled == pc \notin {"exec", "next_exec"} /\ pc' \in {"exec", "next_exec"}

\* the step takes the executor's result
ExecutorReturned == pc \in {"exec", "next_exec"} /\ result' # NoResult

\* the state the call hands over holds prompt pid as Executing
SavedAsExecuting(c, pid) ==
    /\ c.op = "save_queue_state"
    /\ \E k \in 1..Len(c.state[1].prompts) :
          /\ c.state[1].prompts[k].id = pid
          /\ c.state[1].prompts[k].status = EXECUTING

\* C12: in an iteration that selects an item the item is set to Executing,
\* then the state is saved, then the executor is called; on its return the
\* result is applied and last_processed updated, then the state is saved
\* again, then the observer callback is called. The executor is never called
\* for an item whose Executing status has not been passed to a save before.
C12_IterationOrder ==
    [][/\ ExecutorCalled =>
            LET cs == IterationCalls(calls')
            IN  /\ OpsOf(cs) = <<"load_queue_state", "save_queue_state",
                                 "execute_prompt">>
                /\ cs[2].state = state'
                /\ state'[1].prompts[cur'].status = EXECUTING
                /\ cs[3].n = state'[1].prompts[cur'].id
       /\ ExecutorReturned =>
            LET cs == IterationCalls(calls')
                pid == state[1].prompts[cur].id
            IN  /\ OpsOf(cs) = <<"save_queue_state">>
                        \o (IF env.callback THEN <<"callback">> ELSE <<>>)
                /\ cs[1].state[1].prompts[cur].id = pid
                /\ cs[1].state[1].prompts[cur].status # EXECUTING
                /\ cs[1].state[1].last_processed = now
                /\ env.callback => cs[2].state = cs[1].state
       /\ \A j \in 1..Len(calls') :
             calls'[j].op = "execute_prompt" =>
                \E i \in 1..(j - 1) : SavedAsExecuting(calls'[i], calls'[j].n)]_vars

\* an iteration of start() has run to its end on the second of two prompts:
\* the result was saved, then handed to the callback
C12_Witness ==
    /\ pc = "iter_done"
    /\ result # NoResult
    /\ OpsOf(calls) = <<"save_queue_state", "callback">>
    /\ calls[1].state = state
    /\ Len(state[1].prompts) = 2
    /\ state[1].prompts[2].status = FAILED
    /\ state[1].last_processed = now

(* ----------------------- C13: an idle iteration ------------------------- *)
\* the step is an iteration of start() that selects nothing
IdleIteration == pc = "loop" /\ pc' = "iter_done"

\* the step is a process_next() whose iteration selects nothing
IdleProcessNext ==
    /\ pc = "idle" /\ pc' = "done"
    /\ \E j \in 1..Len(calls') : calls'[j].op = "load_queue_state"

CountOf(cs, op) == Cardinality({j \in 1..Len(cs) : cs[j].op = op})

\* what an idle iteration calls: no executor, no save, the callback once if
\* there is one, and that with the items as the store holds them
IdleCalls(cs) ==
    /\ CountOf(cs, "execute_prompt") = 0
    /\ CountOf(cs, "save_queue_state") = 0
    /\ CountOf(cs, "callback") = IF env.callback THEN 1 ELSE 0
    /\ \A j \in 1..Len(cs) :
          cs[j].op = "callback" =>
             /\ cs[j].state[1].prompts = load_queue_state(store).prompts
             /\ cs[j].state[1].total_processed >= store.side.total_processed
             /\ cs[j].state[1].failed_count >= store.side.failed_count
             /\ cs[j].state[1].rate_limited_count >= store.side.rate_limited_count

\* C13: an iteration in which no item is selected, the queue being empty or
\* the rate limit active, calls neither the executor nor a save of the store,
\* changes no item and no counter, and calls the observer callback exactly
\* once.
C13_IdleIterationTouchesNothing ==
    [][/\ IdleIteration =>
            /\ IdleCalls(IterationCalls(calls'))
            /\ store' = store
            /\ state'[1].prompts = load_queue_state(store).prompts
            /\ state'[1].total_processed = state[1].total_processed
            /\ state'[1].failed_count = state[1].failed_count
            /\ state'[1].rate_limited_count = state[1].rate_limited_count
       /\ IdleProcessNext => IdleCalls(IterationCalls(calls'))]_vars

\* an iteration has selected nothing although a prompt is Queued: the rate
\* limit is active
C13_Witness ==
    /\ pc = "iter_done"
    /\ result = NoResult
    /\ OpsOf(calls) = <<"load_queue_state", "callback">>
    /\ is_rate_limited(state[1], now)
    /\ \E k \in 1..Len(state[1].prompts) : state[1].prompts[k].status = QUEUED


(* --------------------- C14: the observer callback ----------------------- *)
\* the step ends an iteration, of start() or of process_next()
IterationEnds ==
    \/ pc \in {"loop", "exec"} /\ pc' = "iter_done"
    \/ pc = "next_exec" /\ pc' = "done"
    \/ IdleProcessNext

\* C14: the observer callback, when supplied, is called exactly once per
\* scheduler iteration, as the last step of the iteration after every state
\* mutation and save of that iteration, and it receives the manager's current
\* state, the reconciled counters included.
C14_CallbackOncePerIteration ==
    [][/\ (IterationEnds /\ env.callback) =>
            LET cs == IterationCalls(calls')
                given == cs[Len(cs)].state[1]
            IN  /\ CountOf(cs, "callback") = 1
                /\ cs[Len(cs)].op = "callback"
                /\ pc' = "iter_done" => cs[Len(cs)].state = state'
                /\ \A j \in 1..Len(cs) :
                      cs[j].op = "save_queue_state" =>
                         /\ cs[j].state = cs[Len(cs)].state
                         /\ pc' = "iter_done" =>
                               store' = save_queue_state(store, state'[1])
                /\ state # NoState =>
                      /\ given.total_processed >= state[1].total_processed
                      /\ given.failed_count >= state[1].failed_count
                      /\ given.rate_limited_count >= state[1].rate_limited_count
                /\ pc \in {"loop", "idle"} =>
                      /\ given.total_processed >= store.side.total_processed
                      /\ given.failed_count >= store.side.failed_count
                      /\ given.rate_limited_count >= store.side.rate_limited_count
       /\ ~IterationEnds => CountOf(calls', "callback") = 0]_vars

\* the callback has been handed a state whose total_processed the manager
\* kept from before the reload and whose failed_count it took from the store
C14_Witness ==
    /\ pc = "iter_done"
    /\ calls # NoCalls
    /\ calls[Len(calls)].op = "callback"
    /\ calls[Len(calls)].state = state
    /\ state[1].total_processed > store.side.total_processed
    /\ state[1].failed_count = store.side.failed_count
    /\ state[1].failed_count > 0


(* ----------------------- C15: graceful shutdown ------------------------- *)
\* the step is _shutdown(), run by the finally block of start()
ShutdownRuns == pc \in {"loop", "iter_done"} /\ pc' = "done"

\* q is p set back to Queued with the interruption entry appended to its log
Interrupted(p, q) ==
    /\ q.status = QUEUED
    /\ q.id = p.id /\ q.priority = p.priority
    /\ q.retry_count = p.retry_count /\ q.max_retries = p.max_retries
    /\ Len(q.execution_log) = Len(p.execution_log) + 1
    /\ SubSeq(q.execution_log, 1, Len(p.execution_log)) = p.execution_log
    /\ q.execution_log[Len(q.execution_log)].msg
          = "Execution interrupted during shutdown"

\* C15: after _shutdown no item of the manager's state is Executing: every
\* item that was Executing is Queued with an interruption entry appended to
\* its log, every other item is unchanged, and the state has been saved
\* exactly once.
C15_ShutdownRequeuesExecuting ==
    [][ShutdownRuns =>
        /\ Len(state'[1].prompts) = Len(state[1].prompts)
        /\ \A k \in 1..Len(state[1].prompts) :
              /\ state'[1].prompts[k].status # EXECUTING
              /\ IF state[1].prompts[k].status = EXECUTING
                 THEN Interrupted(state[1].prompts[k], state'[1].prompts[k])
                 ELSE state'[1].prompts[k] = state[1].prompts[k]
        /\ CountOf(calls', "save_queue_state") = 1
        /\ \A j \in 1..Len(calls') :
              calls'[j].op = "save_queue_state" => calls'[j].state = state']_vars

\* start() has returned through _shutdown, which found one prompt Executing
\* and another Completed
C15_Witness ==
    /\ pc = "done"
    /\ calls # NoCalls
    /\ calls[1].by = "_shutdown"
    /\ Len(state[1].prompts) = 2
    /\ state[1].prompts[1].status = QUEUED
    /\ Len(state[1].prompts[1].execution_log) > 0
    /\ state[1].prompts[1].execution_log[Len(state[1].prompts[1].execution_log)].msg
          = "Execution interrupted during shutdown"
    /\ state[1].prompts[2].status = COMPLETED

(* -------------------- C16: a stop request is deferred ------------------- *)
\* C16: a stop request that arrives during an iteration does not abort it:
\* the result of the execution in flight is applied and saved; after it the
\* loop starts no further iteration and no sleep, and _shutdown runs exactly
\* once before start() returns.
C16_StopTakesEffectBetweenIterations ==
    [][/\ (pc = "exec" /\ ~running /\ calls' # NoCalls) =>
            /\ pc' = "iter_done"
            /\ result' # NoResult
            /\ state'[1].prompts[cur].status # EXECUTING
            /\ \E j \in 1..Len(calls') :
                  /\ calls'[j].op = "save_queue_state"
                  /\ calls'[j].state = state'
       /\ (pc \in {"loop", "iter_done"} /\ ~running /\ calls' # NoCalls) =>
            /\ pc' = "done"
            /\ OpsOf(calls') = <<"save_queue_state">>
            /\ calls'[1].by = "_shutdown"
       /\ (pc \in {"loop", "exec", "iter_done"} /\ pc' = "done") =>
            /\ ~running
            /\ CountOf(calls', "save_queue_state") = 1
       /\ pc \notin {"loop", "iter_done"} =>
            \A j \in 1..Len(calls') : calls'[j].by # "_shutdown"]_vars

\* the stop request came while the executor ran; the result, a success, has
\* been applied and saved since
C16_Witness ==
    /\ pc = "iter_done"
    /\ ~running
    /\ result # NoResult
    /\ result[1].success
    /\ store = save_queue_state(store, state[1])
    /\ \E k \in 1..Len(state[1].prompts) :
          /\ state[1].prompts[k].status = COMPLETED
          /\ HasSucceeded(state[1].prompts[k])


(* ---------------- C17: the return code of process_next ------------------ *)
\* the step is the return of process_next()
ProcessNextReturns ==
    /\ pc \in {"idle", "next_exec"} /\ pc' = "done"
    /\ \E j \in 1..Len(calls') : calls'[j].by = "process_next"

\* process_next() got as far as loading the store
LoadedByProcessNext == pc = "next_exec" \/ IdleProcessNext

\* C17: process_next runs exactly one iteration, hence calls the executor at
\* most once; it returns 0 exactly when the selected item completed
\* successfully or nothing was runnable, 1 on failure, 130 when interrupted;
\* when it returns after loading the store no item of its state is Executing
\* and the state has been saved.
C17_ProcessNextReturnCode ==
    [][/\ pc \in {"idle", "next_exec"} => CountOf(calls', "execute_prompt")
                                             <= (IF pc = "idle" THEN 1 ELSE 0)
       /\ ProcessNextReturns =>
            /\ ret' \in {"0", "1", "130"}
            /\ ret' = "0" <=> \/ IdleProcessNext
                              \/ (result' # NoResult /\ result'[1].success)
            /\ LoadedByProcessNext =>
                  /\ \A k \in 1..Len(state'[1].prompts) :
                        state'[1].prompts[k].status # EXECUTING
                  /\ calls'[Len(calls')].op = "save_queue_state"
                  /\ calls'[Len(calls')].state = state']_vars

(* ------------------ C18: the connection test at startup ----------------- *)
\* the step is a start() or process_next() whose connection test fails
ConnectionTestFails ==
    /\ pc = "idle"
    /\ calls' # NoCalls
    /\ calls'[1].op = "test_connection"
    /\ calls'[1].n = 0

\* C18: if the connection test fails at startup, both run modes abort before
\* loading the store: no iteration runs, running stays False, nothing in the
\* store is modified, and the run ends with a non-zero status.
C18_FailedConnectionAborts ==
    [][ConnectionTestFails =>
        /\ OpsOf(calls') = <<"test_connection">>
        /\ pc' = "done"
        /\ running' = FALSE
        /\ store' = store
        /\ state' = state
        /\ ret' \notin {"none", "0"}]_vars


(* ------------------------ C19: the sleep interval ----------------------- *)
\* the rate-limit conditions a state may hold when the loop computes its
\* sleep, with reset times up to MaxReset
SleepRateLimits ==
    {NoRateLimit, RateLimitInfo(FALSE, NoTime, FALSE)}
    \cup {RateLimitInfo(TRUE, r, TRUE) : r \in {NoTime} \cup (0..MaxReset)}

\* start() has finished an iteration and computes its sleep: the manager was
\* built with any check_interval argparse accepts (cli.py type=int), the
\* state holds any rate-limit condition, and the clock may tick between the
\* two reads of it
InitSleep ==
    /\ \E rl \in SleepRateLimits,
          ps \in {<<>>, <<QueuedPrompt(1, 0, DefaultMaxRetries)>>} :
          /\ state = <<[EmptyQueueState EXCEPT !.prompts = ps,
                                               !.current_rate_limit = rl]>>
          /\ store = save_queue_state(EmptyStore, state[1])
          /\ next_id = Len(ps) + 1
    /\ running = TRUE
    /\ pc = "iter_done"
    /\ cur = 0
    /\ now \in 0..MaxTime
    /\ ret = "none"
    /\ result = NoResult
    /\ calls = NoCalls
    /\ \E ci \in (-1)..MaxInterval :
          env = [DefaultEnv EXCEPT !.check_interval = ci, !.clock_gaps = {0, 1}]

NextSleep == Sleep

SpecSleep == InitSleep /\ [][NextSleep]_vars

\* the step computes the sleep interval
SleepComputed == pc = "iter_done" /\ pc' = "loop"

\* int(): a number of ticks as whole seconds, truncated toward zero
WholeSeconds(ticks) ==
    IF ticks >= 0 THEN ticks \div TicksPerSecond
    ELSE -((-ticks) \div TicksPerSecond)

Smaller(a, b) == IF a <= b THEN a ELSE b

\* min(R - t + 5, check_interval) truncated to whole seconds
CappedWait(qs, t) ==
    WholeSeconds(Smaller(qs.current_rate_limit.reset_time - t
                            + ResetBuffer * TicksPerSecond,
                         env.check_interval * TicksPerSecond))

\* C19 as stated: the sleep interval is always within [0, check_interval];
\* when the rate-limit condition is active with a reset time R later than now
\* it is min(R - now + 5, check_interval) truncated to whole seconds, and
\* when the condition is active without a reset time, or not active, it is
\* exactly check_interval. "now" is the time at which the interval is computed.
C19_SleepIntervalAsStated ==
    [][SleepComputed =>
        LET n == calls'[1].n
            qs == state[1]
        IN  /\ 0 <= n /\ n <= env.check_interval
            /\ IF RateLimitActive(qs, now')
                  /\ qs.current_rate_limit.reset_time # NoTime
               THEN n = CappedWait(qs, now')
               ELSE n = env.check_interval]_vars

\* C19, amended: for a check_interval that is not negative the sleep interval
\* is within [0, check_interval]. When is_rate_limited() answers true and the
\* condition has a reset time R, the interval is min(R - now + 5,
\* check_interval) truncated to whole seconds if R is later than the clock
\* read that follows, and 0 if the clock has reached R by then. When the
\* condition is active without a reset time, or not active, the interval is
\* exactly check_interval.
C19_SleepInterval ==
    [][SleepComputed =>
        LET n == calls'[1].n
            qs == state[1]
        IN  /\ env.check_interval >= 0 => (0 <= n /\ n <= env.check_interval)
            /\ IF RateLimitActive(qs, now)
                  /\ qs.current_rate_limit.reset_time # NoTime
               THEN IF qs.current_rate_limit.reset_time > now'
                    THEN n = CappedWait(qs, now')
                    ELSE n = 0
               ELSE n = env.check_interval]_vars

\* the loop sleeps the buffer alone: the reset is a fraction of a second
\* away, which the truncation drops, and check_interval is longer
C19_Witness ==
    /\ pc = "loop"
    /\ calls # NoCalls
    /\ calls[1].op = "sleep"
    /\ calls[1].n = ResetBuffer
    /\ env.check_interval > ResetBuffer
    /\ state[1].current_rate_limit.reset_time = now + 1


(* --------------------- C20: is_rate_limited() --------------------------- *)
\* is_rate_limited() is asked of any QueueState, again and again while the
\* clock runs
InitLimited ==
    /\ \E ps \in PromptLists, rl \in RateLimits :
          state = <<[EmptyQueueState EXCEPT !.prompts = ps,
                                            !.current_rate_limit = rl]>>
    /\ store = EmptyStore
    /\ running = FALSE
    /\ pc = "ask"
    /\ cur = 0
    /\ now = 0
    /\ next_id = 1
    /\ ret = "none"
    /\ result = NoResult
    /\ calls = NoCalls
    /\ env = DefaultEnv

\* self.state.is_rate_limited()
IsRateLimited ==
    /\ pc = "ask"
    /\ ret' = RetOf(is_rate_limited(state[1], now))
    /\ UNCHANGED <<store, state, running, pc, cur, now, next_id, result, calls, env>>

NextLimited ==
    \/ IsRateLimited
    \/ Tick

SpecLimited == InitLimited /\ [][NextLimited]_vars

\* C20: is_rate_limited() is true iff a rate-limit condition is present, its
\* flag is set, and either it has no reset time or the current time is
\* strictly before the reset time; it is computed anew at every call, so a
\* condition with a reset time becomes inactive once the clock reaches the
\* reset time, without any change of the state.
C20_RateLimitedUntilReset ==
    [][/\ IsRateLimited =>
            LET rl == state[1].current_rate_limit
            IN  ret' = RetOf(/\ rl.present
                             /\ rl.is_rate_limited
                             /\ (rl.reset_time = NoTime \/ now < rl.reset_time))
       /\ (ret = "true" /\ ret' = "false") =>
            /\ state' = state
            /\ state[1].current_rate_limit.reset_time # NoTime
            /\ now >= state[1].current_rate_limit.reset_time]_vars

\* the last call answered true; the clock has reached the reset time since,
\* so that the next call on the same state answers false
C20_Witness ==
    /\ pc = "ask"
    /\ ret = "true"
    /\ state[1].current_rate_limit.is_rate_limited
    /\ state[1].current_rate_limit.reset_time = now
    /\ ~is_rate_limited(state[1], now)


(* ------------- C21: an expired rate limit is cleared -------------------- *)
\* the prompt lists of a store whose prompts wait or are done
CarryLists ==
    {ps \in PromptLists :
        \A k \in 1..Len(ps) : ps[k].status \in {QUEUED, COMPLETED}}

\* a scheduler is about to run an iteration: process_next() in a new
\* process, or the loop of start() in a manager that holds a state. The side
\* file has been written by any process, another scheduler included, so the
\* condition it holds and the one in memory are any two
InitCarry ==
    /\ \E ps \in CarryLists, rl \in RateLimits :
          /\ store = save_queue_state(EmptyStore,
                         [EmptyQueueState EXCEPT !.prompts = ps,
                                                 !.current_rate_limit = rl])
          /\ next_id = Len(ps) + 1
          /\ \/ state = NoState /\ pc = "idle" /\ running = FALSE
             \/ /\ \E rm \in RateLimits :
                      state = <<[EmptyQueueState EXCEPT !.prompts = ps,
                                                        !.current_rate_limit = rm]>>
                /\ pc = "loop"
                /\ running = TRUE
    /\ cur = 0
    /\ now \in 0..MaxTime
    /\ ret = "none"
    /\ result = NoResult
    /\ calls = NoCalls
    /\ env = DefaultEnv

NextCarry ==
    \/ IterationBegin
    \/ ExecutorReturns
    \/ Sleep
    \/ ProcessNext
    \/ Tick

SpecCarry == InitCarry /\ [][NextCarry]_vars

\* the step runs an iteration up to its selection, in either run mode
IterationSelects ==
    \/ ReloadStep
    \/ pc = "idle" /\ (pc' = "next_exec" \/ IdleProcessNext)

\* the condition the iteration carries into its selection: the manager's, or
\* the store's in a manager that has just loaded
Carried == IF state # NoState THEN state[1].current_rate_limit
           ELSE store.side.current_rate_limit

\* C21: if at the start of an iteration the carried rate-limit condition has
\* a reset time that is not after the current time, the condition is cleared
\* before selection, and that same iteration selects and executes the
\* minimum-priority Queued item if one exists; a condition whose reset time
\* is still in the future, or which has no reset time, is not cleared.
C21_ExpiredRateLimitCleared ==
    [][IterationSelects =>
        LET waiting == load_queue_state(store)
            new == state'[1]
        IN  /\ (/\ Carried.present
                /\ Carried.reset_time # NoTime
                /\ Carried.reset_time <= now) =>
                  /\ new.current_rate_limit = NoRateLimit
                  /\ QueuedAt(waiting) # {} =>
                        /\ pc' \in {"exec", "next_exec"}
                        /\ cur' \in QueuedAt(waiting)
                        /\ \A j \in QueuedAt(waiting) :
                              waiting.prompts[cur'].priority
                                 <= waiting.prompts[j].priority
                        /\ new.prompts[cur'].status = EXECUTING
                        /\ \E c \in 1..Len(calls') :
                              /\ calls'[c].op = "execute_prompt"
                              /\ calls'[c].n = waiting.prompts[cur'].id
            /\ (/\ Carried.present
                /\ (Carried.reset_time = NoTime \/ Carried.reset_time > now)) =>
                  new.current_rate_limit = Carried]_vars

\* a prompt was sent back by a rate limit with a reset time; the clock has
\* reached that time and the iteration, its condition cleared, has selected
\* the prompt again
C21_Witness ==
    /\ pc = "exec"
    /\ state[1].rate_limited_count = 1
    /\ state[1].current_rate_limit = NoRateLimit
    /\ Len(state[1].prompts[cur].execution_log) = 4
    /\ state[1].prompts[cur].execution_log[2].msg = "RATE LIMITED"
    /\ state[1].prompts[cur].execution_log[4].msg = "Started execution"


(* --------------- C22: the rate limit across the reload ------------------ *)
\* a condition as clear_rate_limit_if_expired leaves it at time t
AfterExpiry(rl, t) ==
    IF /\ rl.present /\ rl.is_rate_limited
       /\ rl.reset_time # NoTime /\ t >= rl.reset_time
    THEN NoRateLimit ELSE rl

\* C22: after the reload step of an iteration, the current rate-limit
\* condition is the one read from the store when the store expresses one,
\* and the one held in memory before the reload only when the store expresses
\* none; a condition read from the store is not replaced by an absent
\* in-memory condition. (The iteration goes on to clear a condition that has
\* expired, which the comparison allows for.)
C22_ReloadKeepsStoredRateLimit ==
    [][ReloadStep =>
        LET disk == store.side.current_rate_limit
            mem  == state[1].current_rate_limit
            new  == state'[1].current_rate_limit
        IN  /\ disk.present => new = AfterExpiry(disk, now)
            /\ ~disk.present => new = AfterExpiry(mem, now)
            /\ (disk.present /\ ~mem.present) => new.present
                                                  \/ AfterExpiry(disk, now) # disk]_vars


(* ----------------------------- C23: retry ------------------------------- *)
\* parameters a caller has set away from the defaults
SetParams ==
    [DefaultParams EXCEPT !.content = 1, !.working_directory = 1,
                          !.permission_mode = "plan", !.allowed_tools = <<1>>,
                          !.timeout = 1, !.model = "opus"]

RetryShapes == [status : {QUEUED, FAILED}, used : BOOLEAN]

\* a prompt as added, or one of the least urgency with parameters set that
\* has run and failed
RetryPromptAt(k, shape) ==
    IF shape.used
    THEN [QueuedPrompt(k, MaxPriority, 1) EXCEPT
             !.status = shape.status, !.params = SetParams, !.retry_count = 1,
             !.execution_log = <<LogEntry("Started execution", 1, 1),
                                 LogEntry("FAILED (max retries exceeded)", 0, 0)>>,
             !.bookmark = "bookmark"]
    ELSE [QueuedPrompt(k, 0, DefaultMaxRetries) EXCEPT
             !.status = shape.status]

RetryLists ==
    UNION {{[k \in 1..n |-> RetryPromptAt(k, f[k])] : f \in [1..n -> RetryShapes]} :
             n \in 0..MaxId}

\* a caller is about to retry, in a new manager (cli.py) or in one that has
\* loaded the store; saves may fail. The identifier the next QueuedPrompt()
\* gets is 8 hex digits of a random uuid: any value, one in use included.
\* The generator is followed over the last two values of its range
InitRetry ==
    /\ \E ps \in RetryLists :
          LET qs == [EmptyQueueState EXCEPT !.prompts = ps]
          IN  /\ store = save_queue_state(EmptyStore, qs)
              /\ state \in {NoState, <<qs>>}
    /\ next_id \in (MaxId - 1)..MaxId
    /\ running = FALSE
    /\ pc = "done"
    /\ cur = 0
    /\ now = 0
    /\ ret = "none"
    /\ result = NoResult
    /\ calls = NoCalls
    /\ env = [DefaultEnv EXCEPT !.io_faults = TRUE]

NextRetry ==
    \/ \E pid \in Ids, del \in BOOLEAN : RetryPrompt(pid, del)
    \/ \E pid \in Ids, del \in BOOLEAN : CliRetry(pid, del)

SpecRetry == InitRetry /\ [][NextRetry]_vars

\* n is a new item made from orig: Queued, never run, with orig's parameters
ClonedFrom(n, orig) ==
    /\ n.status = QUEUED
    /\ n.retry_count = 0
    /\ n.execution_log = <<>>
    /\ n.priority = orig.priority
    /\ n.max_retries = orig.max_retries
    /\ n.params.content = orig.params.content
    /\ n.params.working_directory = orig.params.working_directory
    /\ n.params.timeout = orig.params.timeout
    /\ n.params.permission_mode = orig.params.permission_mode
    /\ n.params.model = orig.params.model
    /\ n.params.allowed_tools = orig.params.allowed_tools

WithoutId(prompts, pid) == SelectSeq(prompts, LAMBDA p : p.id # pid)

\* what a retry of pid has to leave in the list the caller works on
\* (before, after), fresh saying whether the new identifier must be unused
RetryPost(before, after, pid, del, fresh) ==
    IF PositionsOf(before, pid) = {}
    THEN ret' = "false" /\ after = before /\ store' = store
    ELSE LET k == CHOOSE j \in PositionsOf(before, pid) : TRUE
             orig == before.prompts[k]
             n == after.prompts[Len(after.prompts)]
             removed == del /\ ret' = "true"
         IN  /\ Len(after.prompts) > 0
             /\ fresh => n.id \notin IdsIn(before.prompts)
             /\ ClonedFrom(n, orig)
             /\ after.prompts =
                   (IF removed THEN WithoutId(before.prompts, pid)
                    ELSE before.prompts) \o <<n>>

\* what a retry of pid has to leave in the store
RetryStored(before, pid, del) ==
    IF PositionsOf(before, pid) = {}
    THEN ret' = "false" /\ store' = store
    ELSE LET k == CHOOSE j \in PositionsOf(before, pid) : TRUE
             orig == before.prompts[k]
             stored == load_queue_state(store').prompts
         IN  IF ret' = "true"
             THEN /\ \E j \in 1..Len(stored) :
                        /\ stored[j].id \notin IdsIn(before.prompts)
                        /\ ClonedFrom(stored[j], orig)
                  /\ IF del THEN PositionsOf([prompts |-> stored], pid) = {}
                     ELSE \E j \in 1..Len(stored) : stored[j] = orig
             ELSE store' = store

Unused(before) ==
    /\ next_id \notin IdsIn(before.prompts)
    /\ Cardinality(IdsIn(before.prompts)) = Len(before.prompts)

InitFail ==
    /\ \E ps \in RunLists :
          /\ store = save_queue_state(EmptyStore, [EmptyQueueState EXCEPT !.prompts = ps])
          /\ next_id = Len(ps) + 1
    /\ state = NoState
    /\ running = FALSE
    /\ pc = "idle"
    /\ cur = 0
    /\ now = 0
    /\ ret = "none"
    /\ result = NoResult
    /\ calls = NoCalls
    /\ env = [DefaultEnv EXCEPT !.io_faults = TRUE]

\* the cause of the failing saves goes away: from here on every save succeeds
Repair ==
    /\ env.io_faults
    /\ env' = [env EXCEPT !.io_faults = FALSE]
    /\ result' = NoResult
    /\ calls' = NoCalls
    /\ UNCHANGED <<store, state, running, pc, cur, now, next_id, ret>>

\* the fault lasts for MaxFaults processed results at most: the iteration
\* after them waits for the repair
IterationBeginWithFaults ==
    /\ pc = "loop"
    /\ env.io_faults =>
          state[1].total_processed + state[1].failed_count
             + state[1].rate_limited_count < MaxFaults
    /\ IterationBegin

\* nobody asks the scheduler to stop
NextFail ==
    \/ Start
    \/ IterationBeginWithFaults
    \/ ExecutorReturns
    \/ Sleep
    \/ Repair

\* the loop of start() goes on by itself, the executor returns, and the
\* fault passes
SpecFail ==
    /\ InitFail /\ [][NextFail]_vars
    /\ WF_vars(Start) /\ WF_vars(IterationBeginWithFaults)
    /\ WF_vars(ExecutorReturns) /\ WF_vars(Sleep) /\ WF_vars(Repair)

\* the step made a save that failed
SaveFailed ==
    \E j \in 1..Len(calls') :
        /\ calls'[j].op = "save_queue_state"
        /\ store' = store
        /\ save_queue_state(store, calls'[j].state[1]) # store

\* the status under which the store holds identifier i, if it holds it
StoredAs(i, s) ==
    \E f \in 1..Len(store.files) :
        store.files[f].id = i /\ store.files[f].container = s

\* an iteration has ended with item i processed to status s, and the store
\* does not hold that
OutcomeUnsaved(i, s) ==
    /\ pc = "iter_done"
    /\ result # NoResult
    /\ \E k \in 1..Len(state[1].prompts) :
          state[1].prompts[k].id = i /\ state[1].prompts[k].status = s
    /\ ~StoredAs(i, s)

\* C24: a save of the store that fails never terminates the scheduler loop
\* or raises out of an iteration, and the outcome whose save failed is not
\* lost: a later iteration saves it again, so the item's resulting status
\* eventually reaches the store.
C24_FailedSaveRecovered ==
    /\ [][SaveFailed => pc' \in {"exec", "iter_done"}]_vars
    /\ \A i \in Ids, s \in {COMPLETED, FAILED} :
          OutcomeUnsaved(i, s) ~> StoredAs(i, s)


(* ------------------- C25: save, then load, one item --------------------- *)
\* Identifiers as texts. A prompt file is named after the identifier and the
\* title, "<id>-<title>.md", and the parser takes as identifier the part of
\* the name before the first "-" (the whole stem when there is none)
IdChars == {"a", "-"}

IdTexts == UNION {[1..n -> IdChars] : n \in 1..MaxIdLen}

\* the sanitized title get_base_filename makes of the content
TitleOf(content) == <<"t">>

get_base_filename(p) == p.id \o <<"-">> \o TitleOf(p.params.content)

DashesIn(name) == {j \in 1..Len(name) : name[j] = "-"}

\* parse_prompt_file: the identifier of the file called name
prompt_id_of(name) ==
    IF DashesIn(name) = {} THEN name
    ELSE SubSeq(name, 1, (CHOOSE j \in DashesIn(name) :
                             \A i \in DashesIn(name) : j <= i) - 1)

\* write_prompt_file: the header block, the payload, the log; the file goes
\* to the container of the status
write_prompt_file(p) ==
    [name |-> get_base_filename(p), container |-> p.status,
     priority |-> p.priority, max_retries |-> p.max_retries,
     retry_count |-> p.retry_count, execution_log |-> p.execution_log,
     params |-> p.params, bookmark |-> p.bookmark]

parse_prompt_file(f) ==
    [id |-> prompt_id_of(f.name), priority |-> f.priority,
     max_retries |-> f.max_retries, retry_count |-> f.retry_count,
     status |-> f.container, execution_log |-> f.execution_log,
     params |-> f.params, bookmark |-> f.bookmark]

\* the items a caller may construct: any identifier text, priority, attempts
\* made, parameters left at their defaults or set
Constructed ==
    {[QueuedPrompt(i, prio, DefaultMaxRetries) EXCEPT
         !.retry_count = n, !.params = ps] :
       i \in IdTexts, prio \in 0..MaxPriority, n \in 0..1,
       ps \in {DefaultParams, SetParams}}

\* a state with one constructed item and any counters, not saved yet
InitRoundTrip ==
    /\ \E p \in Constructed, c \in Counters :
          state = <<WithCounters([EmptyQueueState EXCEPT !.prompts = <<p>>], c)>>
    /\ store = EmptyStore
    /\ running = FALSE
    /\ pc = "constructed"
    /\ cur = 0
    /\ now = 0
    /\ next_id = 1
    /\ ret = "none"
    /\ result = NoResult
    /\ calls = NoCalls
    /\ env = DefaultEnv

\* storage.save_queue_state(state) into an empty directory
SaveState ==
    /\ pc = "constructed"
    /\ store' = [files |-> [k \in 1..Len(state[1].prompts) |->
                               write_prompt_file(state[1].prompts[k])],
                 side |-> SideOf(state[1])]
    /\ pc' = "saved"
    /\ ret' = "true"
    /\ UNCHANGED <<state, running, cur, now, next_id, result, calls, env>>

\* loaded = storage.load_queue_state(); state still holds what was saved
LoadState ==
    /\ pc = "saved"
    /\ pc' = "loaded"
    /\ ret' = "none"
    /\ UNCHANGED <<store, state, running, cur, now, next_id, result, calls, env>>

\* what load_queue_state() returns for the store
Loaded ==
    [prompts |-> [k \in 1..Len(store.files) |-> parse_prompt_file(store.files[k])],
     last_processed |-> store.side.last_processed,
     total_processed |-> store.side.total_processed,
     failed_count |-> store.side.failed_count,
     rate_limited_count |-> store.side.rate_limited_count,
     current_rate_limit |-> store.side.current_rate_limit]

NextRoundTrip ==
    \/ SaveState
    \/ LoadState

SpecRoundTrip == InitRoundTrip /\ [][NextRoundTrip]_vars

\* C25: for every item that can be constructed, saving it to the store and
\* then loading the store yields an item with the same identifier, priority,
\* working directory, retry_count, max_retries, timeout, permission mode,
\* model and allowed-tool list, and the saved counters are read back
\* unchanged.
C25_SaveLoadRoundTrip ==
    pc = "loaded" =>
        /\ Len(Loaded.prompts) = 1
        /\ LET p == state[1].prompts[1]
               q == Loaded.prompts[1]
           IN  /\ q.id = p.id
               /\ q.priority = p.priority
               /\ q.params.working_directory = p.params.working_directory
               /\ q.retry_count = p.retry_count
               /\ q.max_retries = p.max_retries
               /\ q.params.timeout = p.params.timeout
               /\ q.params.permission_mode = p.params.permission_mode
               /\ q.params.model = p.params.model
               /\ q.params.allowed_tools = p.params.allowed_tools
        /\ Loaded.total_processed = state[1].total_processed
        /\ Loaded.failed_count = state[1].failed_count
        /\ Loaded.rate_limited_count = state[1].rate_limited_count

(* --------------- C26: RateLimitInfo.from_claude_response ---------------- *)
\* a character of a response text: its letter in lower case, and whether
\* the text has it in upper case; blanks and line ends have no upper case
Ch(c) == [ch |-> c, up |-> FALSE]

Text(letters) == [k \in 1..Len(letters) |-> Ch(letters[k])]

\* str.lower()
lower(text) == [k \in 1..Len(text) |-> [text[k] EXCEPT !.up = FALSE]]

\* str.isspace() of one character
IsSpace(c) == c.ch \in {" ", "\n"}

RECURSIVE lstrip(_)
lstrip(text) ==
    IF text = <<>> THEN text
    ELSE IF IsSpace(Head(text)) THEN lstrip(Tail(text))
    ELSE text

RECURSIVE rstrip(_)
rstrip(text) ==
    IF text = <<>> THEN text
    ELSE IF IsSpace(text[Len(text)]) THEN rstrip(SubSeq(text, 1, Len(text) - 1))
    ELSE text

\* str.strip()
strip(text) == rstrip(lstrip(text))

\* indicator in text
Contains(text, indicator) ==
    \E k \in 0..(Len(text) - Len(indicator)) :
        SubSeq(text, k + 1, k + Len(indicator)) = indicator

rate_limit_indicators ==
    << Text(<<"u","s","a","g","e"," ","l","i","m","i","t"," ",
              "r","e","a","c","h","e","d">>),
       Text(<<"r","a","t","e"," ","l","i","m","i","t">>),
       Text(<<"t","o","o"," ","m","a","n","y"," ",
              "r","e","q","u","e","s","t","s">>),
       Text(<<"q","u","o","t","a"," ","e","x","c","e","e","d","e","d">>),
       Text(<<"l","i","m","i","t"," ","e","x","c","e","e","d","e","d">>) >>

\* RateLimitInfo with its limit_message as text and its timestamp
RateLimitInfoAt(flag, reset, msg, stamp) ==
    [present |-> TRUE, is_rate_limited |-> flag, reset_time |-> reset,
     limit_message |-> msg, timestamp |-> stamp]

\* a detection that compares the text as it is written
from_claude_response_as_written(response_text, t) ==
    IF \E k \in 1..Len(rate_limit_indicators) :
           Contains(response_text, rate_limit_indicators[k])
    THEN RateLimitInfoAt(TRUE, NoTime, strip(response_text), t)
    ELSE RateLimitInfoAt(FALSE, NoTime, <<>>, NoTime)

\* RateLimitInfo.from_claude_response(response_text), called at time t
from_claude_response(response_text, t) ==
    IF \E k \in 1..Len(rate_limit_indicators) :
           Contains(lower(response_text), rate_limit_indicators[k])
    THEN RateLimitInfoAt(TRUE, NoTime, strip(response_text), t)
    ELSE RateLimitInfoAt(FALSE, NoTime, <<>>, NoTime)

\* phrases close to an indicator that contain none
NearMisses ==
    { Text(<<"r","a","t","e"," "," ","l","i","m","i","t">>),
      Text(<<"r","a","t","e","l","i","m","i","t">>),
      Text(<<"u","s","a","g","e"," ","l","i","m","i","t">>),
      Text(<<"l","i","m","i","t"," ","r","e","a","c","h","e","d">>),
      Text(<<"t","o","o"," ","m","a","n","y"," ",
             "r","e","q","u","e","s","t">>),
      Text(<<"q","u","o","t","a","\n","e","x","c","e","e","d","e","d">>),
      Text(<<"d","o","n","e">>),
      <<>> }

Phrases == {rate_limit_indicators[k] : k \in 1..Len(rate_limit_indicators)}
               \cup NearMisses

\* the ways a response spells a phrase: lower case, upper case, capitalised
Casings == {"lower", "upper", "capital"}

Cased(text, casing) ==
    [k \in 1..Len(text) |->
        [text[k] EXCEPT !.up = /\ ~IsSpace(text[k])
                                /\ \/ casing = "upper"
                                   \/ casing = "capital" /\ k = 1]]

\* what surrounds the phrase in a response: up to MaxPad characters
PadChars == {Ch(" "), Ch("\n"), Ch("x")}

Pads == UNION {[1..n -> PadChars] : n \in 0..MaxPad}

\* the captured output of an executor run, not yet classified
InitResponse ==
    /\ store = EmptyStore
    /\ state = NoState
    /\ running = FALSE
    /\ pc = "response"
    /\ cur = 0
    /\ now \in 0..MaxTime
    /\ next_id = 1
    /\ ret = "none"
    /\ \E before \in Pads, phrase \in Phrases, casing \in Casings, after \in Pads :
          result = <<[response_text |-> before \o Cased(phrase, casing) \o after,
                      rate_limit_info |-> NoRateLimit]>>
    /\ calls = NoCalls
    /\ env = DefaultEnv

\* rate_limit_info = RateLimitInfo.from_claude_response(response_text)
FromClaudeResponse ==
    /\ pc = "response"
    /\ result' = <<[result[1] EXCEPT !.rate_limit_info =
                       from_claude_response(result[1].response_text, now)]>>
    /\ pc' = "classified"
    /\ UNCHANGED <<store, state, running, cur, now, next_id, ret, calls, env>>

NextResponse == FromClaudeResponse

SpecResponse == InitResponse /\ [][NextResponse]_vars

\* the lower-cased text contains at least one of the five phrases
Matches(text) ==
    \E indicator \in Phrases \ NearMisses : Contains(lower(text), indicator)

\* the flag, and what a response without a match leaves empty
Detection(info, text) ==
    /\ info.present
    /\ info.is_rate_limited <=> Matches(text)
    /\ info.is_rate_limited => info.timestamp = now
    /\ ~info.is_rate_limited =>
          /\ info.limit_message = <<>>
          /\ info.reset_time = NoTime
          /\ info.timestamp = NoTime

\* C26 as stated: from_claude_response sets the flag iff the lower-cased
\* text contains one of the five phrases; on a match the message is the
\* input text and the timestamp is set; without a match the flag is false
\* and message, reset time and timestamp are empty.
C26_DetectionKeepsText ==
    pc = "classified" =>
        LET info == result[1].rate_limit_info
            text == result[1].response_text
        IN  /\ Detection(info, text)
            /\ info.is_rate_limited => info.limit_message = text

\* C26: from_claude_response sets the flag iff the lower-cased text contains
\* one of the five phrases; on a match the message is the input text without
\* the white space it begins and ends with, and the timestamp is the time of
\* the call; without a match the flag is false and message, reset time and
\* timestamp are empty.
C26_Detection ==
    pc = "classified" =>
        LET info == result[1].rate_limit_info
            text == result[1].response_text
        IN  /\ Detection(info, text)
            /\ info.is_rate_limited =>
                  /\ info.limit_message = strip(text)
                  /\ info.limit_message # <<>>
                  /\ ~IsSpace(Head(info.limit_message))
                  /\ ~IsSpace(info.limit_message[Len(info.limit_message)])
                  /\ \E before \in Pads, after \in Pads :
                        /\ \A k \in 1..Len(before) : IsSpace(before[k])
                        /\ \A k \in 1..Len(after) : IsSpace(after[k])
                        /\ text = before \o info.limit_message \o after

\* a response in upper case between a line end and a blank was classified
\* as a rate limit
C26_Witness ==
    /\ pc = "classified"
    /\ result[1].rate_limit_info.is_rate_limited
    /\ result[1].response_text # lower(result[1].response_text)
    /\ result[1].response_text # result[1].rate_limit_info.limit_message
    /\ IsSpace(Head(result[1].response_text))

(* ------------- C27: the permission mode of a constructed item ----------- *)
\* the permission_mode arguments a caller may pass: the six valid modes,
\* None (NoStr), and texts that are not modes
PermissionModes ==
    VALID_PERMISSION_MODES \cup {NoStr, "invalid_mode", "AcceptEdits", ""}

\* a construction that takes every mode
post_init_any(mode) == TRUE

\* QueuedPrompt.__post_init__: FALSE when it raises ValueError
post_init(mode) ==
    IF mode # NoStr
    THEN IF mode \notin VALID_PERMISSION_MODES THEN FALSE ELSE TRUE
    ELSE TRUE

\* QueuedPrompt(priority=prio, permission_mode=mode): <<p>>, or <<>> when the
\* constructor raised
Construct(i, prio, mode) ==
    IF post_init(mode)
    THEN <<[QueuedPrompt(i, prio, DefaultMaxRetries)
               EXCEPT !.params.permission_mode = mode]>>
    ELSE <<>>

\* a fresh store and a manager that has not loaded it yet; callers leave the
\* priority at its default
InitConstruct ==
    /\ store = EmptyStore
    /\ state = NoState
    /\ running = FALSE
    /\ pc = "done"
    /\ cur = 0
    /\ now = 0
    /\ next_id = 1
    /\ ret = "none"
    /\ result = NoResult
    /\ calls = NoCalls
    /\ env = [DefaultEnv EXCEPT !.io_faults = TRUE, !.priorities = {0}]

\* the constructor raised: the caller's statement ends there
Raised ==
    /\ ret' = "ValueError"
    /\ UNCHANGED <<store, state>>

\* cli.cmd_add in a process of its own: construct the prompt, then
\* manager.add_prompt(prompt)
CmdAdd(mode) ==
    /\ next_id \in env.ids
    /\ \E prio \in env.priorities :
          LET made == Construct(next_id, prio, mode)
          IN  IF made = <<>> THEN Raised
              ELSE \E ok \in SaveOutcomes :
                      Other(add_prompt(NoState, store, made[1], ok))
    /\ next_id' = next_id + 1
    /\ result' = NoResult
    /\ calls' = NoCalls
    /\ UNCHANGED <<running, pc, cur, now, env>>

\* manager.add_prompt(QueuedPrompt(permission_mode=mode)) on this process's
\* manager
AddConstructed(mode) ==
    /\ InProcess
    /\ next_id \in env.ids
    /\ \E prio \in env.priorities :
          LET made == Construct(next_id, prio, mode)
          IN  IF made = <<>> THEN Raised
              ELSE \E ok \in SaveOutcomes :
                      Own(add_prompt(state, store, made[1], ok))
    /\ next_id' = next_id + 1
    /\ result' = NoResult
    /\ calls' = NoCalls
    /\ UNCHANGED <<running, pc, cur, now, env>>

NextConstruct ==
    \/ \E mode \in PermissionModes : CmdAdd(mode)
    \/ \E mode \in PermissionModes : AddConstructed(mode)

SpecConstruct == InitConstruct /\ [][NextConstruct]_vars

\* the items of the given identifier in a sequence of items or files
WithId(items, i) == SelectSeq(items, LAMBDA p : p.id = i)

\* the store keeps the files it had and holds one file of this identifier,
\* that of a Queued item with this permission mode
FiledWith(i, mode) ==
    /\ SubSeq(store'.files, 1, Len(store.files)) = store.files
    /\ Len(WithId(store'.files, i)) = 1
    /\ WithId(store'.files, i)[1].params.permission_mode = mode
    /\ WithId(store'.files, i)[1].container = QUEUED

\* the manager's list holds exactly one more item, with this identifier and
\* permission mode
ListedWith(i, mode) ==
    /\ state' # NoState
    /\ LET before == LoadedState(state, store).prompts
           after  == state'[1].prompts
       IN  /\ after = Append(before, after[Len(after)])
           /\ after[Len(after)].id = i
           /\ after[Len(after)].params.permission_mode = mode
           /\ after[Len(after)].status = QUEUED

\* C27: constructing an item with a permission mode outside the six valid
\* ones fails with an error, and no item is created or added to the
\* manager's list or the store; a valid mode, or none, is accepted and the
\* item carries it unchanged into the list and, when the save succeeds, into
\* the store.
C27_PermissionModeValidated ==
    [][\A mode \in PermissionModes :
          /\ CmdAdd(mode) =>
                IF mode \in VALID_PERMISSION_MODES \cup {NoStr}
                THEN /\ ret' \in {"true", "false"}
                     /\ state' = state
                     /\ IF ret' = "true" THEN FiledWith(next_id, mode)
                        ELSE store' = store
                ELSE /\ ret' = "ValueError"
                     /\ store' = store
                     /\ state' = state
          /\ AddConstructed(mode) =>
                IF mode \in VALID_PERMISSION_MODES \cup {NoStr}
                THEN /\ ret' \in {"true", "false"}
                     /\ ListedWith(next_id, mode)
                     /\ IF ret' = "true" THEN FiledWith(next_id, mode)
                        ELSE store' = store
                ELSE /\ ret' = "ValueError"
                     /\ store' = store
                     /\ state' = state]_vars

\* an item with mode "plan" was added and filed, and the construction of
\* the next one was refused
C27_Witness ==
    /\ ret = "ValueError"
    /\ Len(store.files) = 1
    /\ store.files[1].params.permission_mode = "plan"
    /\ state # NoState
    /\ Len(state[1].prompts) = 1
    /\ next_id = 3

(* ------ C28..C30: other processes change the store under a scheduler ---- *)
\* a scheduler is started on a store of waiting prompts; while it runs, other
\* processes add, cancel, delete and retry prompts, each with a manager of
\* its own that loads the store, changes it and saves it
SharedLists ==
    {ps \in PromptLists : \A k \in 1..Len(ps) : ps[k].status = QUEUED}

InitShared ==
    /\ \E ps \in SharedLists :
          /\ store = save_queue_state(EmptyStore, [EmptyQueueState EXCEPT !.prompts = ps])
          /\ next_id = Len(ps) + 1
    /\ state = NoState
    /\ running = FALSE
    /\ pc = "idle"
    /\ cur = 0
    /\ now = 0
    /\ ret = "none"
    /\ result = NoResult
    /\ calls = NoCalls
    /\ env = DefaultEnv

NextShared ==
    \/ Start
    \/ IterationBegin
    \/ ExecutorReturns
    \/ Sleep
    \/ Tick
    \/ CliAdd
    \/ \E pid \in Ids : CliCancel(pid)
    \/ \E pid \in Ids : CliDelete(pid)
    \/ \E pid \in Ids, del \in BOOLEAN : CliRetry(pid, del)

SpecShared == InitShared /\ [][NextShared]_vars

\* the scheduler holds item i as waiting while the store holds it as
\* Cancelled: another process cancelled it after the scheduler's last reload,
\* while the scheduler executes a different item or is between iterations
CancelledByOther(i) ==
    /\ StoredAs(i, CANCELLED)
    /\ state # NoState
    /\ \E k \in 1..Len(state[1].prompts) :
          /\ state[1].prompts[k].id = i
          /\ state[1].prompts[k].status = QUEUED
          /\ pc = "exec" => k # cur
    /\ pc \in {"exec", "iter_done", "loop"}

\* C28: a cancellation that another process persisted while the scheduler
\* was executing a different item or was asleep is never undone: no later
\* step returns the item to Queued (or Executing) in the store, and the
\* scheduler never executes it.
C28_CancelByOtherNeverUndone ==
    [][\A i \in Ids :
          CancelledByOther(i) =>
              /\ ~StoredAs(i, QUEUED)'
              /\ ~StoredAs(i, EXECUTING)'
              /\ ~(pc' = "exec" /\ state'[1].prompts[cur'].id = i)]_vars

\* the scheduler and processes that add prompts while it runs
NextAdd ==
    \/ Start
    \/ IterationBegin
    \/ ExecutorReturns
    \/ Sleep
    \/ Tick
    \/ CliAdd

SpecAdd == InitShared /\ [][NextAdd]_vars

\* the files the store holds for items the scheduler does not know of:
\* another process added them after the scheduler's last reload
AddedByOther ==
    IF state = NoState \/ pc \notin {"exec", "iter_done", "loop"} THEN {}
    ELSE {k \in 1..Len(store.files) :
             store.files[k].id \notin IdsIn(state[1].prompts)}

\* a step of the scheduler process
SchedulerStep == pc' # pc

\* the store holds file f as it was
Kept(f) == \E k \in 1..Len(store'.files) : store'.files[k] = f

\* the reload found item f and the selection took it into account: unless
\* rate limited the iteration executes a prompt, one whose priority is not
\* behind f's, and f itself when f is ahead of every other waiting prompt
Eligible(f) ==
    /\ f.id \in IdsIn(state'[1].prompts)
    /\ (f.container = QUEUED /\ ~is_rate_limited(state'[1], now)) =>
          /\ pc' = "exec"
          /\ state'[1].prompts[cur'].priority <= f.priority
          /\ (\A j \in 1..Len(store.files) :
                 (store.files[j].container = QUEUED /\ store.files[j].id # f.id)
                     => f.priority < store.files[j].priority)
                => state'[1].prompts[cur'].id = f.id

\* C29: an item another process added to the store while the scheduler was
\* executing or asleep is not removed or overwritten by a save the scheduler
\* makes before its next reload, is in the scheduler's state after that
\* reload, and is then eligible for selection by priority.
C29_AddedByOtherIsSeen ==
    [][SchedulerStep =>
          \A k \in AddedByOther :
              IF ReloadStep
              THEN /\ Eligible(store.files[k])
                   /\ \/ Kept(store.files[k])
                      \/ /\ pc' = "exec"
                         /\ state'[1].prompts[cur'].id = store.files[k].id
              ELSE Kept(store.files[k])]_vars

\* the scheduler executes a prompt that is ahead in priority of the one it
\* has processed before: it was added after that one was selected
C29_Witness ==
    /\ pc = "exec"
    /\ cur = 2
    /\ state[1].prompts[1].status \in {COMPLETED, FAILED}
    /\ state[1].prompts[2].priority < state[1].prompts[1].priority
    /\ state[1].total_processed + state[1].failed_count = 1
    /\ next_id = 3

(* ------------- C30: the persisted counters under interleaving ----------- *)
\* An operation of another process is three steps of its own manager: "if not
\* self.state: self.state = load_queue_state()", the change, and
\* save_queue_state(self.state). Nothing locks the store between the load and
\* the save, so steps of the scheduler may fall between them. env.other is
\* the state such a process has loaded and not yet saved. Operations begin
\* while the scheduler has counted fewer than MaxFaults results.
OtherLoads ==
    /\ env.other = NoState
    /\ state # NoState =>
          state[1].total_processed + state[1].failed_count
              + state[1].rate_limited_count < MaxFaults
    /\ env' = [env EXCEPT !.other = <<load_queue_state(store)>>]
    /\ UNCHANGED <<store, state, running, pc, cur, now, next_id, ret, result, calls>>

\* the operation's change and save, on the state loaded before
OtherSaves(r) ==
    /\ Other(r)
    /\ env' = [env EXCEPT !.other = NoState]
    /\ result' = NoResult
    /\ calls' = NoCalls
    /\ UNCHANGED <<running, pc, cur, now>>

OtherAdds ==
    /\ env.other # NoState
    /\ next_id \in env.ids
    /\ \E p \in NewPrompts, ok \in SaveOutcomes :
          OtherSaves(add_prompt(env.other, store, p, ok))
    /\ next_id' = next_id + 1

OtherCancels(pid) ==
    /\ env.other # NoState
    /\ get_prompt(env.other[1], pid) # 0
    /\ CancelAllowed(env.other, pid)
    /\ \E ok \in SaveOutcomes : OtherSaves(remove_prompt(env.other, store, pid, ok))
    /\ UNCHANGED next_id

OtherDeletes(pid) ==
    /\ env.other # NoState
    /\ get_prompt(env.other[1], pid) # 0
    /\ \E ok \in SaveOutcomes : OtherSaves(delete_prompt(env.other, store, pid, ok))
    /\ UNCHANGED next_id

OtherRetries(pid, del) ==
    /\ env.other # NoState
    /\ get_prompt(env.other[1], pid) # 0
    /\ next_id \in Ids
    /\ \E ok1 \in SaveOutcomes, ok2 \in SaveOutcomes :
          OtherSaves(retry_prompt(env.other, store, pid, del, next_id, ok1, ok2))
    /\ next_id' = next_id + 1

NextRace ==
    \/ Start
    \/ IterationBegin
    \/ ExecutorReturns
    \/ Sleep
    \/ OtherLoads
    \/ OtherAdds
    \/ \E pid \in Ids : OtherCancels(pid)
    \/ \E pid \in Ids : OtherDeletes(pid)
    \/ \E pid \in Ids, del \in BOOLEAN : OtherRetries(pid, del)

\* a scheduler is started on a store of waiting prompts of one priority,
\* with an identifier left for a prompt that another process adds
InitRace ==
    /\ \E ps \in SharedLists :
          /\ Len(ps) < MaxId
          /\ \A k \in 1..Len(ps) : ps[k].priority = 0
          /\ store = save_queue_state(EmptyStore, [EmptyQueueState EXCEPT !.prompts = ps])
          /\ next_id = Len(ps) + 1
    /\ state = NoState
    /\ running = FALSE
    /\ pc = "idle"
    /\ cur = 0
    /\ now = 0
    /\ ret = "none"
    /\ result = NoResult
    /\ calls = NoCalls
    /\ env = [DefaultEnv EXCEPT !.priorities = {0}]

SpecRace == InitRace /\ [][NextRace]_vars

\* C30: the three counters of the persisted side record never decrease,
\* under any interleaving of scheduler iterations with add, cancel, delete
\* and retry operations of other processes that each load the state, change
\* it and save it.
C30_PersistedCountersMonotonic ==
    [][/\ store'.side.total_processed >= store.side.total_processed
       /\ store'.side.failed_count >= store.side.failed_count
       /\ store'.side.rate_limited_count >= store.side.rate_limited_count]_vars

(* ------------- C31: a cancel that races the start of execution ---------- *)
\* the item whose execution is in flight
InFlight == state[1].prompts[cur].id

\* C31: under any interleaving of another process's cancel with the
\* scheduler's Queued -> Executing step for the same item, the item is never
\* persisted as Cancelled while its execution is in flight, and once it is
\* persisted as Cancelled no step persists it as Completed, Failed or Queued.
C31_CancelNeverRacesExecution ==
    [][/\ pc' = "exec" => ~StoredAs(InFlight, CANCELLED)'
       /\ (pc = "exec" /\ StoredAs(InFlight, CANCELLED)) =>
             /\ ~StoredAs(InFlight, COMPLETED)'
             /\ ~StoredAs(InFlight, FAILED)'
             /\ ~StoredAs(InFlight, QUEUED)']_vars

(* ------------- C32: every waiting item is eventually settled ------------ *)
\* the executor returns, and what it returns is not a rate limit
ExecutorReturnsUnlimited ==
    /\ ExecutorReturns
    /\ ~result_is_rate_limited(result'[1])

\* continuous mode; nobody adds prompts or asks the scheduler to stop
NextDrain ==
    \/ Start
    \/ IterationBegin
    \/ ExecutorReturnsUnlimited
    \/ Sleep

\* the loop of start() goes on by itself and the executor returns
SpecDrain ==
    /\ InitRun /\ [][NextDrain]_vars
    /\ WF_vars(Start) /\ WF_vars(IterationBegin)
    /\ WF_vars(ExecutorReturnsUnlimited) /\ WF_vars(Sleep)

\* the store holds item i as Completed, Failed or Cancelled
Settled(i) ==
    StoredAs(i, COMPLETED) \/ StoredAs(i, FAILED) \/ StoredAs(i, CANCELLED)

\* start() has passed its connection test and loaded the store, and no
\* iteration has begun
Started ==
    /\ pc = "loop"
    /\ running
    /\ state = <<load_queue_state(store)>>

\* C32: in continuous mode, with no additions, an executor that always
\* returns and never reports a rate limit, and a loop that is never stopped,
\* every item that is Queued at startup, or was left Executing by a killed
\* earlier run, eventually is Completed, Failed or Cancelled.
C32_EveryItemSettled ==
    \A i \in Ids :
        (Started /\ (StoredAs(i, QUEUED) \/ StoredAs(i, EXECUTING)))
            ~> Settled(i)

(* --------------- C33: a rate limit does not block forever --------------- *)
\* continuous mode while the clock advances; nobody stops the scheduler
\* start states of the blocked-scheduler runs: at most one queued prompt, a
\* manager with or without an observer callback
InitBlocked ==
    /\ \E ps \in SharedLists :
          /\ Len(ps) <= 1
          /\ \A k \in 1..Len(ps) : ps[k].priority = 0
          /\ store = save_queue_state(EmptyStore, [EmptyQueueState EXCEPT !.prompts = ps])
          /\ next_id = Len(ps) + 1
    /\ state = NoState
    /\ running = FALSE
    /\ pc = "idle"
    /\ cur = 0
    /\ now = 0
    /\ ret = "none"
    /\ result = NoResult
    /\ calls = NoCalls
    /\ \E cb \in BOOLEAN : env = [DefaultEnv EXCEPT !.callback = cb]

NextBlocked ==
    \/ Start
    \/ IterationBegin
    \/ ExecutorReturns
    \/ Sleep
    \/ Tick

\* the scheduler is one thread of control: start(), its loop, the executor
\* it waits for, time.sleep()
SchedulerRuns == Start \/ IterationBegin \/ ExecutorReturns \/ Sleep

\* the scheduler goes on by itself, and time passes
SpecBlocked ==
    /\ InitBlocked /\ [][NextBlocked]_vars
    /\ WF_vars(SchedulerRuns) /\ WF_vars(Tick)

\* the iteration that just ended set a rate-limit condition, and a prompt
\* waits
ConditionSet ==
    /\ pc = "iter_done"
    /\ running
    /\ result # NoResult
    /\ result_is_rate_limited(result[1])
    /\ state[1].current_rate_limit.is_rate_limited
    /\ ExecutablePositions(state[1]) # {}

AttemptLists ==
    UNION {{[k \in 1..n |-> QueuedPrompt(k, 0, f[k])] :
               f \in [1..n -> 0..MaxRetries]} : n \in 0..MaxId}

InitAttempts ==
    /\ \E ps \in AttemptLists :
          /\ store = save_queue_state(EmptyStore, [EmptyQueueState EXCEPT !.prompts = ps])
          /\ next_id = Len(ps) + 1
    /\ state = NoState
    /\ running = FALSE
    /\ pc = "idle"
    /\ cur = 0
    /\ now = 0
    /\ ret = "none"
    /\ result = NoResult
    /\ calls = NoCalls
    /\ env = DefaultEnv

SpecAttempts == InitAttempts /\ [][NextRun]_vars

\* the failed attempts a log records: _process_execution_result writes one
\* "FAILED" entry per result that is neither a success nor a rate limit
FailedAttempts(log) ==
    Cardinality({j \in 1..Len(log) :
                    log[j].msg \in {"FAILED (will retry)",
                                    "FAILED (max retries exceeded)"}})

\* the prompts of the manager's state and of the store
KnownPrompts ==
    {load_queue_state(store).prompts[k] :
        k \in 1..Len(load_queue_state(store).prompts)}
    \cup (IF state = NoState THEN {}
          ELSE {state[1].prompts[k] : k \in 1..Len(state[1].prompts)})

WithinRetries(p) ==
    /\ p.retry_count <= p.max_retries
    /\ FailedAttempts(p.execution_log) <= p.max_retries

\* C34 as stated: for every item created with retry_count 0 and any
\* max_retries >= 0, retry_count <= max_retries holds in every reachable
\* state, and the item's failed attempts (rate limits aside) never exceed
\* max_retries.
C34_RetryCountBounded ==
    \A p \in KnownPrompts : WithinRetries(p)

\* C34: for every item created with retry_count 0 and max_retries >= 1,
\* retry_count <= max_retries holds in every reachable state, and the
\* item's failed attempts (rate limits aside) never exceed max_retries;
\* an item with max_retries 0 is still attempted once.
C34_RetryCountBoundedFromOne ==
    \A p \in KnownPrompts : p.max_retries >= 1 => WithinRetries(p)

\* an item with max_retries 1 has failed once and is stored as Failed with
\* retry_count 1
C34_Witness ==
    \E p \in KnownPrompts :
        /\ p.max_retries = 1
        /\ p.retry_count = 1
        /\ p.status = FAILED
        /\ FailedAttempts(p.execution_log) = 1
        /\ StoredAs(p.id, FAILED)

(* ---------- C35: what add, cancel, delete and retry leave alone --------- *)
\* a queue after some processing: prompts of one priority in any status,
\* the counters as the scheduler left them (one per Completed and per
\* Failed prompt), and a rate limit that was reported once
StatusCount(ps, s) == Cardinality({k \in 1..Len(ps) : ps[k].status = s})

ProcessedState(ps) ==
    [prompts |-> ps,
     last_processed |-> 0,
     total_processed |-> StatusCount(ps, COMPLETED),
     failed_count |-> StatusCount(ps, FAILED),
     rate_limited_count |-> 1,
     current_rate_limit |-> RateLimitInfo(TRUE, MaxReset, TRUE)]

FrameLists ==
    {ps \in PromptLists : \A k \in 1..Len(ps) : ps[k].priority = 0}

\* a caller is about to use a manager operation, in a new manager (cli.py)
\* or in one that has loaded the store; identifiers are new
InitFrame ==
    /\ \E ps \in FrameLists :
          LET qs == ProcessedState(ps)
          IN  /\ store = save_queue_state(EmptyStore, qs)
              /\ state \in {NoState, <<qs>>}
              /\ next_id = Len(ps) + 1
    /\ running = FALSE
    /\ pc = "done"
    /\ cur = 0
    /\ now = 0
    /\ ret = "none"
    /\ result = NoResult
    /\ calls = NoCalls
    /\ env = [DefaultEnv EXCEPT !.priorities = {0}]

NextFrame ==
    \/ AddPrompt
    \/ \E pid \in Ids : RemovePrompt(pid)
    \/ \E pid \in Ids : DeletePrompt(pid)
    \/ \E pid \in Ids, del \in BOOLEAN : RetryPrompt(pid, del)
    \/ CliAdd
    \/ \E pid \in Ids : CliCancel(pid)
    \/ \E pid \in Ids : CliDelete(pid)
    \/ \E pid \in Ids, del \in BOOLEAN : CliRetry(pid, del)

SpecFrame == InitFrame /\ [][NextFrame]_vars

\* the prompts of qs other than those with an identifier in touched
OtherPrompts(qs, touched) == SelectSeq(qs.prompts, LAMBDA p : p.id \notin touched)

\* from before to after nothing but the touched prompts has changed
Untouched(before, after, touched) ==
    /\ SideOf(after) = SideOf(before)
    /\ OtherPrompts(after, touched) = OtherPrompts(before, touched)

\* an operation of the scheduler's own manager, seen in its state (and in
\* the store when the manager had loaded nothing before)
OwnFrame(touched) ==
    /\ Untouched(LoadedState(state, store), state'[1], touched)
    /\ state = NoState =>
          Untouched(load_queue_state(store), load_queue_state(store'), touched)

\* an operation of another process, seen in the store
CliFrame(touched) ==
    Untouched(load_queue_state(store), load_queue_state(store'), touched)

\* C35: add, cancel, delete and retry leave total_processed, failed_count,
\* rate_limited_count, last_processed and the rate-limit condition as they
\* are and change no prompt but the one they target (and, for retry, the
\* new one); deleting a Completed or Failed prompt lowers no counter.
C35_OperationsKeepTheRest ==
    [][/\ AddPrompt => OwnFrame({next_id})
       /\ CliAdd => CliFrame({next_id})
       /\ \A pid \in Ids :
             /\ RemovePrompt(pid) => OwnFrame({pid})
             /\ DeletePrompt(pid) => OwnFrame({pid})
             /\ CliCancel(pid) => CliFrame({pid})
             /\ CliDelete(pid) => CliFrame({pid})
             /\ \A del \in BOOLEAN :
                   /\ RetryPrompt(pid, del) => OwnFrame({pid, next_id})
                   /\ CliRetry(pid, del) => CliFrame({pid, next_id})]_vars

\* the one prompt of the queue, a Completed one, was deleted: the store
\* holds no file, and total_processed, last_processed and the rate limit
\* are what they were
C35_Witness ==
    /\ ret = "true"
    /\ next_id = 2
    /\ store.files = <<>>
    /\ store.side.total_processed = 1
    /\ store.side.failed_count = 0
    /\ store.side.last_processed = 0
    /\ store.side.rate_limited_count = 1
    /\ store.side.current_rate_limit = RateLimitInfo(TRUE, MaxReset, TRUE)

(* --------------- C36: ties between Queued prompts ----------------------- *)
\* a state whose prompts were added one after the other, before a selection
InitTie ==
    /\ \E ps \in PromptLists :
          /\ state = <<[EmptyQueueState EXCEPT !.prompts = ps]>>
          /\ next_id = Len(ps) + 1
    /\ store = EmptyStore
    /\ running = FALSE
    /\ pc = "select"
    /\ cur = 0
    /\ now = 0
    /\ ret = "none"
    /\ result = NoResult
    /\ calls = NoCalls
    /\ env = DefaultEnv

\* self.state.add_prompt(prompt)
StateAddPrompt ==
    /\ pc = "select"
    /\ next_id \in Ids
    /\ \E p \in NewPrompts : state' = <<state_add_prompt(state[1], p)>>
    /\ next_id' = next_id + 1
    /\ UNCHANGED <<store, running, pc, cur, now, ret, result, calls, env>>

\* a second self.state.get_next_prompt() on the same state
SelectAgain ==
    /\ pc = "selected"
    /\ cur' = get_next_prompt(state[1], now)
    /\ pc' = "again"
    /\ UNCHANGED <<store, state, running, now, next_id, ret, result, calls, env>>

NextTie ==
    \/ StateAddPrompt
    \/ SelectNext
    \/ SelectAgain

SpecTie == InitTie /\ [][NextTie]_vars

\* C36: among several Queued prompts of the minimum priority value
\* get_next_prompt returns the one that comes first in the list of the
\* state, which is the order in which the prompts were added; a second call
\* on the same state at the same time returns the same prompt.
C36_TiesGoToTheFirstAdded ==
    [][/\ (pc' \in {"selected", "again"} /\ cur' # 0) =>
             \A j \in QueuedAt(state'[1]) :
                state'[1].prompts[j].priority = state'[1].prompts[cur'].priority
                   => cur' <= j
       /\ (pc = "selected" /\ pc' = "again") => cur' = cur
       /\ (pc = "select" /\ pc' = "select") =>
             /\ Len(state'[1].prompts) = Len(state[1].prompts) + 1
             /\ SubSeq(state'[1].prompts, 1, Len(state[1].prompts))
                   = state[1].prompts
             /\ state'[1].prompts[Len(state'[1].prompts)].id = next_id]_vars

\* a prompt was added behind a Queued one of the same priority, and both
\* selections returned the older one
C36_Witness ==
    /\ pc = "again"
    /\ cur = 1
    /\ next_id = 3
    /\ Len(state[1].prompts) = 2
    /\ \A k \in 1..2 : /\ state[1].prompts[k].status = QUEUED
                       /\ state[1].prompts[k].priority = 1

(* ----------------- C37: what a load takes from a file ------------------- *)
\* A prompt file as it lies in the store: the container it is in (for an
\* executing prompt the ".executing" marker of its name), the identifier its
\* name starts with, and a header block that is absent, cannot be parsed, or
\* gives a priority and possibly names a status
HeaderStatuses == {QUEUED, EXECUTING, COMPLETED}

Headers ==
    {[kind |-> "none", priority |-> 0, status |-> NoStr],
     [kind |-> "malformed", priority |-> MaxPriority, status |-> COMPLETED]}
    \cup [kind : {"valid"}, priority : 1..MaxPriority,
          status : HeaderStatuses \cup {NoStr}]

PromptFiles(i) == [container : PromptStatus, id : {i}, header : Headers]

\* parse_prompt_file: the metadata of the header block, the defaults of
\* QueuedPrompt where the block is absent or cannot be parsed
parse_header(h) ==
    IF h.kind = "valid" THEN [priority |-> h.priority] ELSE [priority |-> 0]

\* a parser that believes the status a header names
load_prompt_trusting_header(f) ==
    [QueuedPrompt(f.id, parse_header(f.header).priority, DefaultMaxRetries)
        EXCEPT !.status = IF f.header.kind = "valid" /\ f.header.status # NoStr
                          THEN f.header.status ELSE f.container]

\* _load_prompts_from_files, one file: the parsed prompt with the status of
\* the container
load_prompt_from_file(f) ==
    [QueuedPrompt(f.id, parse_header(f.header).priority, DefaultMaxRetries)
        EXCEPT !.status = f.container]

\* a store directory with up to MaxId prompt files, written by any program
InitFiles ==
    /\ \E n \in 0..MaxId :
          \E fs \in [1..n -> UNION {PromptFiles(i) : i \in Ids}] :
              /\ \A k \in 1..n : fs[k].id = k
              /\ store = [files |-> fs, side |-> SideOf(EmptyQueueState)]
    /\ state = NoState
    /\ running = FALSE
    /\ pc = "stored"
    /\ cur = 0
    /\ now = 0
    /\ next_id = 1
    /\ ret = "none"
    /\ result = NoResult
    /\ calls = NoCalls
    /\ env = DefaultEnv

\* storage.load_queue_state() on that directory
LoadFiles ==
    /\ pc = "stored"
    /\ state' = <<[EmptyQueueState EXCEPT
                      !.prompts = [k \in 1..Len(store.files) |->
                                      load_prompt_from_file(store.files[k])]]>>
    /\ pc' = "loaded"
    /\ UNCHANGED <<store, running, cur, now, next_id, ret, result, calls, env>>

NextFiles == LoadFiles

SpecFiles == InitFiles /\ [][NextFiles]_vars

\* C37: a load gives every file of the store one item; the item's status is
\* the container the file was found in, whatever status the file itself
\* names, and a file whose metadata cannot be parsed yields an item with the
\* default metadata.
C37_StatusFromContainer ==
    pc = "loaded" =>
        /\ Len(state[1].prompts) = Len(store.files)
        /\ \A k \in 1..Len(store.files) :
              LET f == store.files[k]
                  p == state[1].prompts[k]
              IN  /\ p.id = f.id
                  /\ p.status = f.container
                  /\ f.header.kind # "valid" =>
                        /\ p.priority = 0
                        /\ p.max_retries = DefaultMaxRetries
                        /\ p.retry_count = 0
                        /\ p.params = DefaultParams

\* a file under the executing marker whose header names another status was
\* loaded as Executing, next to a file with a broken header that was loaded
\* as a Queued item of priority 0
C37_Witness ==
    /\ pc = "loaded"
    /\ Len(store.files) = 2
    /\ store.files[1].container = EXECUTING
    /\ store.files[1].header.kind = "valid"
    /\ store.files[1].header.status = COMPLETED
    /\ state[1].prompts[1].status = EXECUTING
    /\ store.files[2].container = QUEUED
    /\ store.files[2].header.kind = "malformed"
    /\ state[1].prompts[2].status = QUEUED
    /\ state[1].prompts[2].priority = 0

(* --------------------------- C38: can_retry ----------------------------- *)
\* a prompt in any status, with any number of attempts counted against any
\* max_retries
InitCanRetry ==
    /\ \E s \in PromptStatus, n \in 0..(MaxRetries + 1), m \in 0..MaxRetries :
          state = <<[EmptyQueueState EXCEPT
                        !.prompts = <<[QueuedPrompt(1, 0, m) EXCEPT
                                          !.status = s, !.retry_count = n]>>]>>
    /\ store = EmptyStore
    /\ running = FALSE
    /\ pc = "ask"
    /\ cur = 1
    /\ now = 0
    /\ next_id = 2
    /\ ret = "none"
    /\ result = NoResult
    /\ calls = NoCalls
    /\ env = DefaultEnv

\* prompt.can_retry()
CanRetry ==
    /\ pc = "ask"
    /\ ret' = RetOf(can_retry(state[1].prompts[cur]))
    /\ pc' = "asked"
    /\ UNCHANGED <<store, state, running, cur, now, next_id, result, calls, env>>

NextCanRetry == CanRetry

SpecCanRetry == InitCanRetry /\ [][NextCanRetry]_vars

IsPrefix(a, b) == Len(a) <= Len(b) /\ SubSeq(b, 1, Len(a)) = a

\* the log of prompt i as qs holds it
LogIn(qs, i) == qs.prompts[get_prompt(qs, i)].execution_log

Holds(qs, i) == get_prompt(qs, i) # 0

\* the step leaves every log of the store, and every log of the manager's
\* state, as it was or longer
LogsOnlyGrow ==
    \A i \in Ids :
        /\ (Holds(load_queue_state(store), i) /\ Holds(load_queue_state(store'), i)) =>
              IsPrefix(LogIn(load_queue_state(store), i),
                       LogIn(load_queue_state(store'), i))
        /\ (state # NoState /\ state' # NoState
            /\ Holds(state[1], i) /\ Holds(state'[1], i)) =>
              IsPrefix(LogIn(state[1], i), LogIn(state'[1], i))

\* the step takes a Queued prompt into execution: its log is the stored one
\* plus one entry that names attempt retry_count + 1 of max_retries
AttemptLogged ==
    (pc' = "exec" /\ pc # "exec") =>
        LET p == state'[1].prompts[cur']
        IN  /\ Holds(load_queue_state(store), p.id)
            /\ p.status = EXECUTING
            /\ p.execution_log =
                  Append(LogIn(load_queue_state(store), p.id),
                         LogEntry("Started execution", p.retry_count + 1,
                                  p.max_retries))

\* C39: the execution log of an item is append-only: every scheduler step
\* and every manager operation leaves the previous log as a prefix of the
\* new one, and each transition from Queued to Executing appends exactly
\* one entry, which names attempt number retry_count + 1.
C39_LogAppendOnly ==
    [][LogsOnlyGrow /\ AttemptLogged]_vars

(* ------------------ C40: a status for rate-limited items ---------------- *)
\* the value the tests expect PromptStatus.RATE_LIMITED to have
RATE_LIMITED == "rate_limited"

\* C40: the status set contains a per-item RateLimited status besides
\* Queued, Executing, Completed, Failed and Cancelled, and get_next_prompt
\* hands out an item in that status only as a Queued one, once the item's
\* own reset time has passed.
C40_RateLimitedStatusExists ==
    /\ RATE_LIMITED \in PromptStatus
    /\ pc = "selected" =>
          \A k \in 1..Len(state[1].prompts) :
              (state[1].prompts[k].status = RATE_LIMITED /\ cur = k)
                  => state[1].prompts[cur].status = QUEUED

====
